---- MODULE Spec2Model ----
(***************************************************************************)
(* Verification model of the hun-bot-three core: CameraController (with    *)
(* the GSAP animations it drives), the SceneManager transition protocol,   *)
(* AssetLoader, ResourceDisposer, ReducedMotion, PerformanceMonitor and    *)
(* InputHandler.                                                           *)
(*                                                                         *)
(* Everything runs on one UI thread: an action is one callback turn (a     *)
(* public call up to its first await, or the continuation after an await   *)
(* together with the microtasks it triggers).                              *)
(***************************************************************************)
EXTENDS Integers, Sequences, FiniteSets, TLC

\* ------------------------------------------------------------------ bounds
MaxTweens == 3        \* timelines created by CameraController.transitionTo
MaxNavs == 2          \* SceneManager navigation calls

MaxCalls == 3         \* AssetLoader.loadModel / loadTexture calls
MaxRetriedCalls == 2  \* of them, calls made with any retry limit
MaxDisposeCalls == 2  \* ResourceDisposer calls on one object graph
MaxSubs == 3          \* ReducedMotion.subscribe calls
MaxChanges == 2       \* changes of the reduced-motion preference
MaxCleanups == 1      \* ReducedMotion.cleanup calls
MaxUpdates == 3       \* PerformanceMonitor.update calls at freely chosen times
MaxResets == 1        \* PerformanceMonitor.reset calls
MaxFrames == 123      \* PerformanceMonitor.update calls of a long run of frames
MaxScroll == 100      \* the largest scroll delta accumulated between two reads
MaxWheelTotal == 100  \* the largest sum of all wheel deltas received

TweenIds == 1..MaxTweens
NavIds == 1..MaxNavs

SceneIds == {"landing", "about", "projects"}
FirstScene == "landing"
NoScene == "null"
\* a scene's configured camera position is named after the scene
Positions == SceneIds \cup {"free"}

VARIABLES
  \* ---- CameraController + GSAP
  tweenStatus,     \* timeline -> "none" | "created" | "running" | "completed" | "killed"
  tweenTarget,     \* timeline -> the position it animates to
  activeTween,     \* CameraController.activeTween (0 is null)
  resolveCount,    \* timeline -> times the promise's resolve() was called
  hookCount,       \* timeline -> times options.onComplete was called
  parallaxTween,   \* the fire-and-forget tween of applyParallax: "none" | "alive"
  aspect,          \* camera.aspect, as a viewport index
  resized,         \* the timeline the last updateAspect call found alive (0: none)
  \* ---- SceneManager
  booting,         \* Initializing(first scene)
  currentSceneId,
  previousSceneId,
  isTransitioning, \* SceneTransitionState.isTransitioning
  trans,           \* navigation call -> [pc, from, to, tween]
  sceneState,      \* scene id -> "none" | "initing" | "inited" | "mounted" | "disposed"
  mountCount,      \* scene id -> mount() calls
  disposeCount,    \* scene id -> dispose() calls
  lastUpdated,     \* the scenes the last frame called update() on
  \* ---- AssetLoader
  cache,           \* kind -> url -> cached object (0: absent): modelCache, textureCache
  calls,           \* load call -> [pc, kind, url, maxRetries, attempt, result, lastError]
  fetchCount,      \* load call -> loader.load() calls it issued
  delays,          \* load call -> the backoff delays (ms) it waited, in order
  errorCalls,      \* load call -> causes passed to onErrorCallback for its url, in order
  overlap,         \* pairs <<c, d>>: d was called while c had not settled, same kind and url
  objects,         \* number of result objects the loaders produced
  disposedObjects, \* objects clearCache() handed to the ResourceDisposer
  onErrorSet,      \* whether setOnError registered a callback
  fresh,           \* calls resolved since the last clearCache()
  later,           \* pairs <<c, d>>: d was called after c resolved, same kind and url,
                   \* with no clearCache() in between
  preload,         \* the preloadAssets call: [pc, urls, ids, result, early]
  stale,           \* the calls in flight during the last clearCache(), less the failed
  \* ---- ResourceDisposer, on a graph of Object3D nodes
  graph,           \* [geom, mats, texs, throws]: the resources of the nodes and materials
  parent,          \* node -> its parent (0: none)
  shape,           \* the parents before any disposer call
  dkinds,          \* the disposer method of each call: "object3d" | "scene" | "all"
  dcount,          \* resource -> dispose() calls on it
  dlog,            \* the dispose() and detach events, in order
  dcalls,          \* the roots the disposer was called on, in order (0: null)
  callDisposed,    \* per call: the resources it called dispose() on
  escaped,         \* whether a call let an exception escape to its caller
  \* ---- ReducedMotion
  hasWindow,       \* typeof window !== 'undefined'
  matches,         \* the OS preference: (prefers-reduced-motion: reduce) matches
  mediaQuery,      \* ReducedMotion.mediaQuery, a MediaQueryList (0 is null)
  queries,         \* MediaQueryList objects created by matchMedia
  attached,        \* the MediaQueryLists handleChange is a 'change' listener of
  listeners,       \* ReducedMotion.listeners, a Set of callbacks
  subs,            \* handle -> [cb, state, epoch]: "none" | "active" | "unsubscribed"
                   \* | "cleaned" | "noop"; epoch: the cleanup() calls before it
  notified,        \* callback -> times it was called
  changes,         \* preference changes so far
  cleanups,        \* cleanup() calls so far
  duration,        \* the last getAdjustedDuration call and its result
  \* ---- PerformanceMonitor
  clock,           \* performance.now()
  lastFrameTime,
  frameTimeHistory,
  fpsHistory,
  lastWarningTime,
  isLandingScene,
  warnings,        \* the times of the warning bursts, in order
  suppressed,      \* the times of the budget violations the throttle kept silent
  updates,         \* update() calls so far
  resets,          \* the times of the reset() calls, in order
  samples,         \* every frame time pushed since construction or reset()
  \* ---- InputHandler
  inputListeners,  \* <<target, event>> of the listeners attached to the DOM
  boundHandlers,   \* the keys of InputHandler.boundHandlers
  pointer,
  keysPressed,
  lastKey,
  scrollDelta,
  touches,         \* the touch points on the screen, in the order they went down
  deltaOp,         \* whether a move or resetDeltas() came last
  ignored,         \* a DOM event happened that no listener received
  scrollLog,       \* the sums of the wheel deltas received and of the deltas returned
  atReset,         \* the pointer position at the last resetDeltas() call
  \* ---- consumers of the InputHandler
  pointerSnap,     \* the object getPointerState() returned last
  keyboardSnap     \* the object getKeyboardState() returned last

cameraVars == <<tweenStatus, tweenTarget, activeTween, resolveCount, hookCount,
                parallaxTween, aspect, resized>>
sceneVars == <<booting, currentSceneId, previousSceneId, isTransitioning, trans,
               sceneState, mountCount, disposeCount, lastUpdated>>
loaderVars == <<cache, calls, fetchCount, delays, errorCalls, overlap, objects,
                disposedObjects, onErrorSet, fresh, later, preload, stale>>
disposerVars == <<graph, parent, shape, dcount, dlog, dcalls, dkinds, callDisposed,
                  escaped>>
motionVars == <<hasWindow, matches, mediaQuery, queries, attached, listeners, subs,
                notified, changes, cleanups, duration>>
monitorVars == <<clock, lastFrameTime, frameTimeHistory, fpsHistory, lastWarningTime,
                 isLandingScene, warnings, suppressed, updates, resets, samples>>
inputVars == <<inputListeners, boundHandlers, pointer, keysPressed, lastKey, scrollDelta,
               touches, deltaOp, ignored, scrollLog, atReset>>
snapVars == <<pointerSnap, keyboardSnap>>
vars == <<cameraVars, sceneVars, loaderVars, disposerVars, motionVars, monitorVars,
          inputVars, snapVars>>

\* ======================================================= CameraController

Alive(ts) == {i \in TweenIds : ts[i] \in {"created", "running"}}
FreeTweens == {i \in TweenIds : tweenStatus[i] = "none"}
NewTween == CHOOSE i \in FreeTweens : \A j \in FreeTweens : i <= j

\* if (this.activeTween) { this.activeTween.kill(); this.activeTween = null; }
DropExisting(ts, act) == ts
CancelExisting(ts, act) == IF act # 0 THEN [ts EXCEPT ![act] = "killed"] ELSE ts

\* activeTween !== null && activeTween.isActive(): GSAP reports a timeline
\* active once its first tick has rendered it and until it ends or is killed
isTransitioning_camera ==
  activeTween # 0 /\ tweenStatus[activeTween] = "running"

\* the state change of transitionTo(position, ...): kill, new timeline, store it
CameraStart(pos) ==
  /\ FreeTweens # {}
  /\ tweenStatus' = [CancelExisting(tweenStatus, activeTween) EXCEPT ![NewTween] = "created"]
  /\ tweenTarget' = [tweenTarget EXCEPT ![NewTween] = pos]
  /\ activeTween' = NewTween
  /\ UNCHANGED <<resolveCount, hookCount, parallaxTween, aspect, resized>>

Camera_transitionTo(pos) ==
  /\ CameraStart(pos)
  /\ UNCHANGED <<sceneVars, loaderVars, disposerVars, motionVars, monitorVars, inputVars, snapVars>>

Camera_setPosition(pos) ==
  /\ tweenStatus' = CancelExisting(tweenStatus, activeTween)
  /\ activeTween' = 0
  /\ UNCHANGED <<tweenTarget, resolveCount, hookCount, parallaxTween, aspect, resized>>
  /\ UNCHANGED <<sceneVars, loaderVars, disposerVars, motionVars, monitorVars, inputVars, snapVars>>

Camera_cancelTransition ==
  /\ tweenStatus' = CancelExisting(tweenStatus, activeTween)
  /\ activeTween' = 0
  /\ UNCHANGED <<tweenTarget, resolveCount, hookCount, parallaxTween, aspect, resized>>
  /\ UNCHANGED <<sceneVars, loaderVars, disposerVars, motionVars, monitorVars, inputVars, snapVars>>

\* dispose() { this.cancelTransition(); }
Camera_dispose == Camera_cancelTransition

Camera_applyParallax ==
  /\ ~isTransitioning_camera
  /\ parallaxTween' = "alive"
  /\ UNCHANGED <<tweenStatus, tweenTarget, activeTween, resolveCount, hookCount, aspect, resized>>
  /\ UNCHANGED <<sceneVars, loaderVars, disposerVars, motionVars, monitorVars, inputVars, snapVars>>

Viewports == {1, 2}
\* an updateAspect that restarts the camera
ResizeCancels(v) ==
  /\ aspect' = v
  /\ resized' = (IF Alive(tweenStatus) = {} THEN resized
                  ELSE CHOOSE i \in Alive(tweenStatus) : TRUE)
  /\ tweenStatus' = CancelExisting(tweenStatus, activeTween)
  /\ activeTween' = 0
  /\ UNCHANGED <<tweenTarget, resolveCount, hookCount, parallaxTween>>
  /\ UNCHANGED <<sceneVars, loaderVars, disposerVars, motionVars, monitorVars, inputVars, snapVars>>

\* camera.aspect = width / height; camera.updateProjectionMatrix()
Camera_updateAspect(v) ==
  /\ aspect' = v
  /\ resized' = (IF Alive(tweenStatus) = {} THEN resized
                  ELSE CHOOSE i \in Alive(tweenStatus) : TRUE)
  /\ UNCHANGED <<tweenStatus, tweenTarget, activeTween, resolveCount, hookCount,
                 parallaxTween>>
  /\ UNCHANGED <<sceneVars, loaderVars, disposerVars, motionVars, monitorVars, inputVars, snapVars>>

\* ---- GSAP ticker
\* first tick of a timeline: it renders and onStart fires
TweenStart(i) ==
  /\ tweenStatus[i] = "created"
  /\ tweenStatus' = [tweenStatus EXCEPT ![i] = "running"]
  /\ UNCHANGED <<tweenTarget, activeTween, resolveCount, hookCount, parallaxTween, aspect, resized>>
  /\ UNCHANGED <<sceneVars, loaderVars, disposerVars, motionVars, monitorVars, inputVars, snapVars>>

\* the parallax tween (0.5 s) ends
ParallaxTick ==
  /\ parallaxTween = "alive"
  /\ parallaxTween' = "none"
  /\ UNCHANGED <<tweenStatus, tweenTarget, activeTween, resolveCount, hookCount, aspect, resized>>
  /\ UNCHANGED <<sceneVars, loaderVars, disposerVars, motionVars, monitorVars, inputVars, snapVars>>

\* onComplete: () => { this.activeTween = null; onComplete?.(); resolve(); }
NeverResolve(rc, i) == rc
OnCompleteResolve(rc, i) == [rc EXCEPT ![i] = @ + 1]

\* ============================================================ SceneManager
\* The repository declares the Scene lifecycle (Scene.ts) and plans the
\* SceneManager; its transition protocol is modelled from the design text
\* (section 4.7): reject / enter Transitioning / await init / swap and start
\* the camera / await the camera's completion signal.

NoTrans == [pc |-> "none", from |-> NoScene, to |-> NoScene, tween |-> 0]
FreeNavs == {t \in NavIds : trans[t].pc = "none"}
NewNav == CHOOSE t \in FreeNavs : \A u \in FreeNavs : t <= u
InFlight == {t \in NavIds : trans[t].pc \in {"init", "camera"}}
ActiveScenes == {s \in SceneIds : sceneState[s] = "mounted"}

\* step 1: reject if already Transitioning, or if toId == currentSceneId
NavRejectedOnlySame(to) == to = currentSceneId
NavRejected(to) == isTransitioning \/ to = currentSceneId

\* step 3: the target scene is created lazily and starts its init()
AcceptDisposesEarly(ss, from, to) == [ss EXCEPT ![to] = "initing", ![from] = "disposed"]
AcceptScenes(ss, from, to) == [ss EXCEPT ![to] = "initing"]

\* step 4 (b), (c): A.dispose(), B.mount(), in one turn
MountWithoutDispose(ss, from, to) == [ss EXCEPT ![to] = "mounted"]
SwapScenes(ss, from, to) == [ss EXCEPT ![from] = "disposed", ![to] = "mounted"]

\* step 3, failure: the flag after the transition is aborted
AbortFlagStuck == TRUE
AbortFlag == FALSE

\* application start: the first scene's init() resolves and it is mounted
Scene_boot ==
  /\ booting
  /\ booting' = FALSE
  /\ sceneState' = [sceneState EXCEPT ![FirstScene] = "mounted"]
  /\ mountCount' = [mountCount EXCEPT ![FirstScene] = @ + 1]
  /\ UNCHANGED <<currentSceneId, previousSceneId, isTransitioning, trans,
                 disposeCount, lastUpdated>>
  /\ UNCHANGED <<cameraVars, loaderVars, disposerVars, motionVars, monitorVars, inputVars, snapVars>>

\* SceneManager.transitionTo(sceneId), up to its first await
Scene_transitionTo(to) ==
  /\ ~booting
  /\ FreeNavs # {}
  /\ IF NavRejected(to)
       THEN /\ trans' = [trans EXCEPT ![NewNav] =
                           [pc |-> "rejected", from |-> currentSceneId, to |-> to, tween |-> 0]]
            /\ UNCHANGED <<isTransitioning, sceneState>>
       ELSE /\ trans' = [trans EXCEPT ![NewNav] =
                           [pc |-> "init", from |-> currentSceneId, to |-> to, tween |-> 0]]
            /\ isTransitioning' = TRUE
            /\ sceneState' = AcceptScenes(sceneState, currentSceneId, to)
  /\ UNCHANGED <<booting, currentSceneId, previousSceneId, mountCount, disposeCount,
                 lastUpdated>>
  /\ UNCHANGED <<cameraVars, loaderVars, disposerVars, motionVars, monitorVars, inputVars, snapVars>>

\* B.init() resolved: start the camera transition, dispose A, mount B
Scene_initResolved(t) ==
  /\ trans[t].pc = "init"
  /\ CameraStart(trans[t].to)
  /\ sceneState' = SwapScenes(sceneState, trans[t].from, trans[t].to)
  /\ disposeCount' = [s \in SceneIds |->
        IF sceneState[s] # "disposed" /\ sceneState'[s] = "disposed"
          THEN disposeCount[s] + 1 ELSE disposeCount[s]]
  /\ mountCount' = [s \in SceneIds |->
        IF sceneState[s] # "mounted" /\ sceneState'[s] = "mounted"
          THEN mountCount[s] + 1 ELSE mountCount[s]]
  /\ trans' = [trans EXCEPT ![t].pc = "camera", ![t].tween = NewTween]
  /\ UNCHANGED <<booting, currentSceneId, previousSceneId, isTransitioning, lastUpdated>>
  /\ UNCHANGED <<loaderVars, disposerVars, motionVars, monitorVars, inputVars, snapVars>>

\* B.init() rejected: abort, stay on A
Scene_initRejected(t) ==
  /\ trans[t].pc = "init"
  /\ trans' = [trans EXCEPT ![t].pc = "failed"]
  /\ isTransitioning' = AbortFlag
  /\ sceneState' = [sceneState EXCEPT ![trans[t].to] =
                      IF @ = "initing" THEN "none" ELSE @]
  /\ UNCHANGED <<booting, currentSceneId, previousSceneId, mountCount, disposeCount,
                 lastUpdated>>
  /\ UNCHANGED <<cameraVars, loaderVars, disposerVars, motionVars, monitorVars, inputVars, snapVars>>

\* one rendered frame: update() of the active scene, then render
Frame ==
  /\ ~booting
  /\ lastUpdated' = ActiveScenes
  /\ UNCHANGED <<booting, currentSceneId, previousSceneId, isTransitioning, trans,
                 sceneState, mountCount, disposeCount>>
  /\ UNCHANGED <<cameraVars, loaderVars, disposerVars, motionVars, monitorVars, inputVars, snapVars>>

\* the timeline reaches its end: onComplete runs, and with it the continuation
\* of the navigation that awaits this timeline's promise (step 5)
Awaiting(i) == {t \in NavIds : trans[t].pc = "camera" /\ trans[t].tween = i}
TweenComplete(i) ==
  /\ tweenStatus[i] = "running"
  /\ tweenStatus' = [tweenStatus EXCEPT ![i] = "completed"]
  /\ activeTween' = 0
  /\ hookCount' = [hookCount EXCEPT ![i] = @ + 1]
  /\ resolveCount' = OnCompleteResolve(resolveCount, i)
  /\ UNCHANGED <<tweenTarget, parallaxTween, aspect, resized>>
  /\ IF resolveCount'[i] > resolveCount[i] /\ Awaiting(i) # {}
       THEN LET t == CHOOSE u \in Awaiting(i) : TRUE IN
            /\ trans' = [trans EXCEPT ![t].pc = "done"]
            /\ isTransitioning' = FALSE
            /\ currentSceneId' = trans[t].to
            /\ previousSceneId' = trans[t].from
       ELSE UNCHANGED <<trans, isTransitioning, currentSceneId, previousSceneId>>
  /\ UNCHANGED <<booting, sceneState, mountCount, disposeCount, lastUpdated>>
  /\ UNCHANGED <<loaderVars, disposerVars, motionVars, monitorVars, inputVars, snapVars>>

\* ============================================================ AssetLoader
\* loadModel and loadTexture are the same code over modelCache/gltfLoader and
\* textureCache/textureLoader: one model, indexed by kind.

CallIds == 1..MaxCalls
Kinds == {"model", "texture"}
Urls == {"a.glb", "b.png"}
DefaultRetries == 3
RetryChoices == {0, 1, DefaultRetries}
\* retry limits that allow no attempt, and the smallest that allows one
NoRetryChoices == {-1, 0, 1}
NoCall == [pc |-> "none", kind |-> "model", url |-> "a.glb", maxRetries |-> 0,
           attempt |-> 0, result |-> 0, lastError |-> "null"]
FreeCalls == {c \in CallIds : calls[c].pc = "none"}
NewCall == CHOOSE c \in FreeCalls : \A d \in FreeCalls : c <= d
Unsettled(c) == calls[c].pc \in {"fetching", "delaying"}
SameAsset(c, k, u) == calls[c].kind = k /\ calls[c].url = u

\* Math.pow(2, attempt) * 1000
RECURSIVE Pow2(_)
Pow2(n) == IF n = 0 THEN 1 ELSE 2 * Pow2(n - 1)
FlatBackoffMs(attempt) == 1000
BackoffMs(attempt) == Pow2(attempt) * 1000

\* an error callback handed lastError as it is
RawErrorCalls(ec, lastError) == IF onErrorSet THEN Append(ec, lastError) ELSE ec

\* "All retries failed": onErrorCallback(url, lastError || new Error(message))
FinalErrorCalls(ec, lastError) ==
  IF onErrorSet
    THEN Append(ec, IF lastError # "null" THEN lastError ELSE "exhausted")
    ELSE ec

\* loadingManager.onError: the loaders report every failed load to the manager
ManagerErrorCalls(ec) == IF onErrorSet THEN Append(ec, "manager") ELSE ec

\* the state of a call when it reaches its first await (or returns before it):
\* a cache hit, the first loader.load(), or a loop that never runs
StartCall(k, u, n) ==
  LET call == [NoCall EXCEPT !.kind = k, !.url = u, !.maxRetries = n] IN
  IF cache[k][u] # 0
    THEN [call EXCEPT !.pc = "resolved", !.result = cache[k][u]]
    ELSE IF 0 < n THEN [call EXCEPT !.pc = "fetching"]
    ELSE [call EXCEPT !.pc = "rejected"]

\* ---- preloadAssets: Promise.all over the listed loadModel / loadTexture calls
NoPreload == [pc |-> "none", urls |-> [model |-> <<>>, texture |-> <<>>],
              ids |-> [model |-> <<>>, texture |-> <<>>],
              result |-> [model |-> <<>>, texture |-> <<>>], early |-> {}]
Range(s) == {s[i] : i \in 1..Len(s)}
Members(p) == Range(p.ids.model) \cup Range(p.ids.texture)
ResultsOf(cs, ids) == [i \in 1..Len(ids) |-> cs[ids[i]].result]

\* a preload that resolves as soon as one listed asset has loaded
PreloadSettleAny(p, cs) ==
  IF p.pc = "pending" /\ \E c \in Members(p) : cs[c].pc = "resolved"
    THEN [p EXCEPT !.pc = "resolved",
                   !.result = [k \in Kinds |-> ResultsOf(cs, p.ids[k])]]
    ELSE p

\* Promise.all: rejected by the first rejection, fulfilled by the last
\* fulfilment with the values in input order; settled once
PreloadSettle(p, cs) ==
  IF p.pc # "pending" THEN p
  ELSE IF \E c \in Members(p) : cs[c].pc = "rejected"
    THEN [p EXCEPT !.pc = "rejected",
                   !.early = {c \in Members(p) : cs[c].pc = "resolved"}]
  ELSE IF \A c \in Members(p) : cs[c].pc = "resolved"
    THEN [p EXCEPT !.pc = "resolved",
                   !.result = [k \in Kinds |-> ResultsOf(cs, p.ids[k])]]
  ELSE p

\* loadModel(url, maxRetries) / loadTexture(url, maxRetries), up to the first await
Loader_load(k, u, n) ==
  /\ FreeCalls # {}
  /\ LET c == NewCall
         call == StartCall(k, u, n)
     IN
     /\ overlap' = overlap \cup
          {<<d, c>> : d \in {e \in CallIds : Unsettled(e) /\ SameAsset(e, k, u)}}
     /\ later' = later \cup {<<d, c>> : d \in {e \in fresh : SameAsset(e, k, u)}}
     /\ fresh' = IF call.pc = "resolved" THEN fresh \cup {c} ELSE fresh
     /\ calls' = [calls EXCEPT ![c] = call]
     /\ fetchCount' = [fetchCount EXCEPT ![c] = IF call.pc = "fetching" THEN 1 ELSE 0]
     /\ errorCalls' = [errorCalls EXCEPT ![c] =
                         IF call.pc = "rejected" THEN FinalErrorCalls(@, "null") ELSE @]
  /\ preload' = PreloadSettle(preload, calls')
  /\ UNCHANGED <<cache, delays, objects, disposedObjects, onErrorSet>>
  /\ UNCHANGED stale
  /\ UNCHANGED <<cameraVars, sceneVars, disposerVars, motionVars, monitorVars, inputVars, snapVars>>

\* the loader's onLoad: a new object; cache it and return it
Loader_fetchSucceeded(c) ==
  /\ calls[c].pc = "fetching"
  /\ objects' = objects + 1
  /\ cache' = [cache EXCEPT ![calls[c].kind][calls[c].url] = objects + 1]
  /\ calls' = [calls EXCEPT ![c].pc = "resolved", ![c].result = objects + 1]
  /\ fresh' = fresh \cup {c}
  /\ preload' = PreloadSettle(preload, calls')
  /\ UNCHANGED <<fetchCount, delays, errorCalls, overlap, later, disposedObjects,
                 onErrorSet>>
  /\ UNCHANGED stale
  /\ UNCHANGED <<cameraVars, sceneVars, disposerVars, motionVars, monitorVars, inputVars, snapVars>>

\* the loader's onError: catch, then back off or give up
Loader_fetchFailed(c) ==
  /\ calls[c].pc = "fetching"
  /\ IF calls[c].attempt < calls[c].maxRetries - 1
       THEN /\ calls' = [calls EXCEPT ![c].pc = "delaying", ![c].lastError = "fetch"]
            /\ delays' = [delays EXCEPT ![c] = Append(@, BackoffMs(calls[c].attempt))]
            /\ errorCalls' = [errorCalls EXCEPT ![c] = ManagerErrorCalls(@)]
       ELSE /\ calls' = [calls EXCEPT ![c].pc = "rejected", ![c].lastError = "fetch",
                                      ![c].attempt = @ + 1]
            /\ errorCalls' = [errorCalls EXCEPT ![c] =
                                FinalErrorCalls(ManagerErrorCalls(@), "fetch")]
            /\ UNCHANGED delays
  /\ preload' = PreloadSettle(preload, calls')
  /\ stale' = {d \in stale : calls'[d].pc # "rejected"}
  /\ UNCHANGED <<cache, fetchCount, overlap, later, fresh, objects, disposedObjects,
                 onErrorSet>>
  /\ UNCHANGED <<cameraVars, sceneVars, disposerVars, motionVars, monitorVars, inputVars, snapVars>>

\* the backoff timer fires: next attempt
Loader_delayElapsed(c) ==
  /\ calls[c].pc = "delaying"
  /\ calls' = [calls EXCEPT ![c].pc = "fetching", ![c].attempt = @ + 1]
  /\ fetchCount' = [fetchCount EXCEPT ![c] = @ + 1]
  /\ UNCHANGED <<cache, delays, errorCalls, overlap, later, fresh, preload, objects,
                 disposedObjects, onErrorSet>>
  /\ UNCHANGED stale
  /\ UNCHANGED <<cameraVars, sceneVars, disposerVars, motionVars, monitorVars, inputVars, snapVars>>

\* clearCache(): dispose every cached model scene and texture, empty both maps
Loader_clearCache ==
  /\ disposedObjects' = disposedObjects \cup
       ({cache[k][u] : k \in Kinds, u \in Urls} \ {0})
  /\ cache' = [k \in Kinds |-> [u \in Urls |-> 0]]
  /\ fresh' = {}
  /\ stale' = {c \in CallIds : Unsettled(c)}
  /\ UNCHANGED <<calls, fetchCount, delays, errorCalls, overlap, later, preload,
                 objects, onErrorSet>>
  /\ UNCHANGED <<cameraVars, sceneVars, disposerVars, motionVars, monitorVars, inputVars, snapVars>>

\* the input lists of preloadAssets
PreloadLists == {<<>>, <<"a.glb">>, <<"b.png", "a.glb">>}

\* the i-th free call slot
NthFree(i) == CHOOSE c \in FreeCalls : Cardinality({d \in FreeCalls : d < c}) = i - 1

\* preloadAssets(models, textures): every listed loadModel(url) and
\* loadTexture(url) runs to its first await in this turn, with the default
\* maxRetries
Loader_preloadAssets(ms, ts) ==
  /\ preload.pc = "none"
  /\ Len(ms) + Len(ts) <= Cardinality(FreeCalls)
  /\ LET ids == [model |-> [i \in 1..Len(ms) |-> NthFree(i)],
                 texture |-> [i \in 1..Len(ts) |-> NthFree(Len(ms) + i)]]
         urls == [model |-> ms, texture |-> ts]
         new == {x \in Kinds \X CallIds : x[2] <= Len(urls[x[1]])}
         started == [c \in CallIds |->
                       IF \E x \in new : ids[x[1]][x[2]] = c
                         THEN LET x == CHOOSE y \in new : ids[y[1]][y[2]] = c
                              IN StartCall(x[1], urls[x[1]][x[2]], DefaultRetries)
                         ELSE calls[c]]
         fetching == {c \in CallIds : calls[c].pc = "none" /\ started[c].pc = "fetching"}
     IN
     /\ calls' = started
     /\ fetchCount' = [c \in CallIds |-> IF c \in fetching THEN 1 ELSE fetchCount[c]]
     /\ overlap' = overlap \cup
          {<<d, c>> \in CallIds \X CallIds :
             /\ calls[c].pc = "none" /\ started[c].pc # "none"
             /\ started[d].kind = started[c].kind /\ started[d].url = started[c].url
             /\ \/ Unsettled(d)
                \/ d \in fetching /\ d < c}
     /\ later' = later \cup
          {<<d, c>> \in fresh \X CallIds :
             /\ calls[c].pc = "none" /\ started[c].pc # "none"
             /\ SameAsset(d, started[c].kind, started[c].url)}
     /\ fresh' = fresh \cup
          {c \in CallIds : calls[c].pc = "none" /\ started[c].pc = "resolved"}
     /\ preload' = PreloadSettle([NoPreload EXCEPT !.pc = "pending", !.urls = urls,
                                                   !.ids = ids], started)
  /\ UNCHANGED <<cache, delays, errorCalls, objects, disposedObjects, onErrorSet>>
  /\ UNCHANGED stale
  /\ UNCHANGED <<cameraVars, sceneVars, disposerVars, motionVars, monitorVars, inputVars, snapVars>>

\* ======================================================= ResourceDisposer
\* Three nodes; node 1 is the root. A node has a geometry (or none) and a
\* material array; a material has texture-valued properties; dispose() of the
\* resources in graph.throws throws.

NodeIds == {1, 2, 3}
Geometries == {"g1", "g2"}
Materials == {"m1", "m2"}
Textures == {"t1", "t2"}
Resources == Geometries \cup Materials \cup Textures
NoResource == "null"
NodeName == [n \in NodeIds |-> <<"n1", "n2", "n3">>[n]]

Chain == [n \in NodeIds |-> n - 1]
Fan == [n \in NodeIds |-> IF n = 1 THEN 0 ELSE 1]

EmptyGraph ==
  [geom |-> [n \in NodeIds |-> NoResource], mats |-> [n \in NodeIds |-> <<>>],
   texs |-> [m \in Materials |-> <<>>], throws |-> {}]

\* the graphs explored: shared geometries and materials, a texture held by
\* two properties or two materials, and at most one resource that throws
Graphs ==
  {[geom |-> g, mats |-> m, texs |-> t, throws |-> th] :
     g \in {f \in [NodeIds -> Geometries \cup {NoResource}] :
              f[1] \in {NoResource, "g1"} /\ f[2] # NoResource /\ f[3] \in {NoResource, "g2"}},
     m \in {f \in [NodeIds -> {<<>>, <<"m1">>, <<"m2">>, <<"m1", "m2">>}] :
              f[1] \in {<<>>, <<"m1">>} /\ f[2] \in {<<"m1">>, <<"m1", "m2">>}
              /\ f[3] \in {<<>>, <<"m2">>}},
     t \in {f \in [Materials -> {<<>>, <<"t1">>, <<"t2">>, <<"t1", "t1">>, <<"t1", "t2">>}] :
              f["m1"] # <<"t2">> /\
              f["m2"] \in {<<>>, <<"t2">>}},
     th \in {{}, {"g1"}, {"m1"}, {"t1"}}}

\* a step of a try block: skipped once an exception is in flight
Seq2(st, next) == IF st.exc THEN st ELSE next
Rethrow(st) == st
\* catch (error) { console.error(...) }
Catch(st) == [st EXCEPT !.exc = FALSE]

\* resource.dispose()
CallDispose(st, r) ==
  [st EXCEPT !.cnt[r] = @ + 1,
             !.log = Append(@, [op |-> "dispose", id |-> r, node |-> st.cur]),
             !.done = @ \cup {r},
             !.exc = r \in graph.throws]

disposeGeometry(st, g) ==
  IF g = NoResource THEN st ELSE Catch(CallDispose(st, g))

disposeTexture(st, t) ==
  IF t = NoResource THEN st ELSE Catch(CallDispose(st, t))

\* a material whose properties are not looked at
SkipTextures(st, ts) == st
\* Object.keys(mat).forEach: every texture-valued property
RECURSIVE DisposeTextures(_, _)
DisposeTextures(st, ts) ==
  IF ts = <<>> \/ st.exc THEN st
  ELSE DisposeTextures(disposeTexture(st, Head(ts)), Tail(ts))

\* materials.forEach((mat) => { try { textures; mat.dispose() } catch {} })
RECURSIVE disposeMaterial(_, _)
disposeMaterial(st, ms) ==
  IF ms = <<>> \/ st.exc THEN st
  ELSE LET texturesDone == DisposeTextures(st, graph.texs[Head(ms)])
           matDone == Seq2(texturesDone, CallDispose(texturesDone, Head(ms)))
       IN disposeMaterial(Catch(matDone), Tail(ms))

NoChildren(par, n) == <<>>
\* [...object.children], in array order
ChildrenOf(par, n) ==
  LET kids == {c \in NodeIds : par[c] = n}
      RECURSIVE Ordered(_)
      Ordered(S) == IF S = {} THEN <<>>
                    ELSE LET least == CHOOSE c \in S : \A d \in S : c <= d
                         IN <<least>> \o Ordered(S \ {least})
  IN Ordered(kids)

\* object.removeFromParent()
RemoveFromParent(st, n) ==
  IF st.par[n] = 0 THEN st
  ELSE [st EXCEPT !.par[n] = 0,
                  !.log = Append(@, [op |-> "detach", id |-> NodeName[n], node |-> n])]

RECURSIVE disposeObject3D(_, _)
RECURSIVE DisposeChildren(_, _)
DisposeChildren(st, kids) ==
  IF kids = <<>> \/ st.exc THEN st
  ELSE DisposeChildren(disposeObject3D(st, Head(kids)), Tail(kids))

disposeObject3D(st, n) ==
  IF n = 0 THEN st
  ELSE LET childrenDone == DisposeChildren(st, ChildrenOf(st.par, n))
           own == [childrenDone EXCEPT !.cur = n]
           geometryDone == Seq2(own, disposeGeometry(own, graph.geom[n]))
           materialDone == Seq2(geometryDone, disposeMaterial(geometryDone, graph.mats[n]))
           detached == Seq2(materialDone, RemoveFromParent(materialDone, n))
       IN Catch(detached)

\* the state a disposer call starts from
CallState ==
  [cnt |-> dcount, log |-> dlog, par |-> parent, done |-> {}, exc |-> FALSE, cur |-> 0]

\* ResourceDisposer.disposeObject3D(object); object may be null
Disposer_disposeObject3D(n) ==
  /\ Len(dcalls) < MaxDisposeCalls
  /\ LET after == disposeObject3D(CallState, n) IN
     /\ dcount' = after.cnt
     /\ dlog' = after.log
     /\ parent' = after.par
     /\ callDisposed' = Append(callDisposed, after.done)
     /\ escaped' = (escaped \/ after.exc)
  /\ dcalls' = Append(dcalls, n)
  /\ dkinds' = Append(dkinds, "object3d")
  /\ UNCHANGED <<graph, shape>>
  /\ UNCHANGED <<cameraVars, sceneVars, loaderVars, motionVars, monitorVars, inputVars, snapVars>>

\* scene.clear(): removes every child still attached
RECURSIVE Clear(_, _)
Clear(st, kids) ==
  IF kids = <<>> THEN st ELSE Clear(RemoveFromParent(st, Head(kids)), Tail(kids))

\* disposeScene(scene): the children, then scene.clear(); the scene's own
\* fields are not touched
disposeScene(st, n) ==
  IF n = 0 THEN st
  ELSE LET childrenDone == DisposeChildren(st, ChildrenOf(st.par, n))
           cleared == Seq2(childrenDone,
                           Clear(childrenDone, ChildrenOf(childrenDone.par, n)))
       IN Catch(cleared)

\* ResourceDisposer.disposeScene(scene), the scene being the root of the graph
Disposer_disposeScene(n) ==
  /\ Len(dcalls) < MaxDisposeCalls
  /\ LET after == disposeScene(CallState, n) IN
     /\ dcount' = after.cnt
     /\ dlog' = after.log
     /\ parent' = after.par
     /\ callDisposed' = Append(callDisposed, after.done)
     /\ escaped' = (escaped \/ after.exc)
  /\ dcalls' = Append(dcalls, n)
  /\ dkinds' = Append(dkinds, "scene")
  /\ UNCHANGED <<graph, shape>>
  /\ UNCHANGED <<cameraVars, sceneVars, loaderVars, motionVars, monitorVars, inputVars, snapVars>>

\* disposeMesh(mesh): the mesh's geometry, then its material
disposeMesh(st, n) ==
  IF n = 0 THEN st
  ELSE LET own == [st EXCEPT !.cur = n]
           geometryDone == disposeGeometry(own, graph.geom[n])
           materialDone == Seq2(geometryDone, disposeMaterial(geometryDone, graph.mats[n]))
       IN Catch(materialDone)

\* 'isMesh' in resource: the nodes that have a geometry are Meshes, the
\* others plain Object3Ds
isMesh(n) == graph.geom[n] # NoResource

\* disposeAll(resource), the resource being a node or null
disposeAll(st, n) ==
  IF n = 0 THEN st
  ELSE IF isMesh(n) THEN disposeMesh(st, n)
  ELSE disposeObject3D(st, n)

\* ResourceDisposer.disposeAll(resource)
Disposer_disposeAll(n) ==
  /\ Len(dcalls) < MaxDisposeCalls
  /\ LET after == disposeAll(CallState, n) IN
     /\ dcount' = after.cnt
     /\ dlog' = after.log
     /\ parent' = after.par
     /\ callDisposed' = Append(callDisposed, after.done)
     /\ escaped' = (escaped \/ after.exc)
  /\ dcalls' = Append(dcalls, n)
  /\ dkinds' = Append(dkinds, "all")
  /\ UNCHANGED <<graph, shape>>
  /\ UNCHANGED <<cameraVars, sceneVars, loaderVars, motionVars, monitorVars, inputVars, snapVars>>

\* ============================================================ ReducedMotion
\* Static state of the class: mediaQuery and the listener set. Durations are
\* in milliseconds (0.01 s is 10).

SubIds == 1..MaxSubs
QueryIds == 1..(MaxCleanups + 1)
Callbacks == {"f", "g"}
DefaultReducedMs == 10
NormalDurations == {5, 500, 1000, 1500}
ReducedDurations == {0, 100}
NoSub == [cb |-> "f", state |-> "none", epoch |-> 0]
NoDuration == [called |-> FALSE, normal |-> 0, reduced |-> 0, explicit |-> FALSE,
               active |-> FALSE, result |-> 0]
FreeSubs == {h \in SubIds : subs[h].state = "none"}
NewSub == CHOOSE h \in FreeSubs : \A g \in FreeSubs : h <= g

\* if (!this.mediaQuery) this.mediaQuery = window.matchMedia(...): a new
\* MediaQueryList object per matchMedia call
EnsureQuery == IF mediaQuery = 0 THEN queries + 1 ELSE mediaQuery
QueriesAfter == IF mediaQuery = 0 THEN queries + 1 ELSE queries

\* mediaQuery.removeEventListener('change', this.handleChange)
KeepChangeListener(att, q) == att
RemoveChangeListener(att, q) == IF q # 0 THEN att \ {q} ELSE att

\* isReduced(): false without a window, else mediaQuery.matches
isReduced == hasWindow /\ matches

\* getAdjustedDuration(normalDuration, reducedDuration = 0.01)
getAdjustedDuration(normalDuration, reducedDuration) ==
  IF isReduced THEN reducedDuration ELSE normalDuration

\* a call of isReduced() that creates the MediaQueryList
Motion_isReduced ==
  /\ hasWindow
  /\ mediaQuery = 0
  /\ mediaQuery' = EnsureQuery
  /\ queries' = QueriesAfter
  /\ UNCHANGED <<hasWindow, matches, attached, listeners, subs, notified, changes,
                 cleanups, duration>>
  /\ UNCHANGED <<cameraVars, sceneVars, loaderVars, disposerVars, monitorVars, inputVars, snapVars>>

\* a call of getAdjustedDuration, with or without the second argument
Motion_getAdjustedDuration(normal, reduced, explicit) ==
  /\ LET red == IF explicit THEN reduced ELSE DefaultReducedMs IN
     duration' = [called |-> TRUE, normal |-> normal, reduced |-> red,
                  explicit |-> explicit, active |-> isReduced,
                  result |-> getAdjustedDuration(normal, red)]
  /\ mediaQuery' = IF hasWindow THEN EnsureQuery ELSE mediaQuery
  /\ queries' = IF hasWindow THEN QueriesAfter ELSE queries
  /\ UNCHANGED <<hasWindow, matches, attached, listeners, subs, notified, changes,
                 cleanups>>
  /\ UNCHANGED <<cameraVars, sceneVars, loaderVars, disposerVars, monitorVars, inputVars, snapVars>>

\* subscribe(callback): returns the unsubscribe handle NewSub
Motion_subscribe(cb) ==
  /\ FreeSubs # {}
  /\ IF ~hasWindow
       THEN /\ subs' = [subs EXCEPT ![NewSub] = [cb |-> cb, state |-> "noop", epoch |-> cleanups]]
            /\ UNCHANGED <<mediaQuery, queries, listeners, attached>>
       ELSE /\ mediaQuery' = EnsureQuery
            /\ queries' = QueriesAfter
            /\ listeners' = listeners \cup {cb}
            /\ attached' = IF Cardinality(listeners') = 1
                             THEN attached \cup {mediaQuery'} ELSE attached
            /\ subs' = [subs EXCEPT ![NewSub] = [cb |-> cb, state |-> "active", epoch |-> cleanups]]
  /\ UNCHANGED <<hasWindow, matches, notified, changes, cleanups, duration>>
  /\ UNCHANGED <<cameraVars, sceneVars, loaderVars, disposerVars, monitorVars, inputVars, snapVars>>

\* a call of the handle subscribe returned (it can be called again)
Motion_unsubscribe(h) ==
  /\ subs[h].state \in {"active", "unsubscribed", "cleaned"}
  /\ listeners' = listeners \ {subs[h].cb}
  /\ attached' = IF listeners' = {} /\ mediaQuery # 0
                   THEN RemoveChangeListener(attached, mediaQuery) ELSE attached
  /\ subs' = [subs EXCEPT ![h].state = "unsubscribed"]
  /\ UNCHANGED <<hasWindow, matches, mediaQuery, queries, notified, changes, cleanups,
                 duration>>
  /\ UNCHANGED <<cameraVars, sceneVars, loaderVars, disposerVars, monitorVars, inputVars, snapVars>>

\* the preference toggles: every MediaQueryList with handleChange attached
\* runs it, and handleChange calls every callback of the listener set
Motion_preferenceChange ==
  /\ hasWindow
  /\ changes < MaxChanges
  /\ matches' = ~matches
  /\ changes' = changes + 1
  /\ notified' = [f \in Callbacks |->
                    notified[f] + IF f \in listeners THEN Cardinality(attached) ELSE 0]
  /\ UNCHANGED <<hasWindow, mediaQuery, queries, attached, listeners, subs, cleanups,
                 duration>>
  /\ UNCHANGED <<cameraVars, sceneVars, loaderVars, disposerVars, monitorVars, inputVars, snapVars>>

\* cleanup()
Motion_cleanup ==
  /\ cleanups < MaxCleanups
  /\ cleanups' = cleanups + 1
  /\ attached' = RemoveChangeListener(attached, mediaQuery)
  /\ listeners' = {}
  /\ mediaQuery' = 0
  /\ subs' = [h \in SubIds |->
                IF subs[h].state = "active" THEN [subs[h] EXCEPT !.state = "cleaned"]
                ELSE subs[h]]
  /\ UNCHANGED <<hasWindow, matches, queries, notified, changes, duration>>
  /\ UNCHANGED <<cameraVars, sceneVars, loaderVars, disposerVars, monitorVars, inputVars, snapVars>>

\* ======================================================= PerformanceMonitor
\* Times are in milliseconds. An FPS sample 1000 / frameTime is kept as the
\* fraction [num, den], so that the median and its rounding are exact. The
\* two performance.now() readings of one update() call are taken as equal.

historySize == 120
targetFPS == 60
maxFrameTimeTenths == 167
maxDrawCallsLanding == 150
maxDrawCallsTypical == 300
maxTextureMB == 64
maxStutterDuration == 250
warningThrottleTime == 5000

\* the time that passes between two calls
Steps == {0, 10, 20, warningThrottleTime}
\* the clock (performance.now()) when the monitor is constructed
StartTimes == {100, 6000}
\* renderer.info: render.calls, memory.textures, memory.geometries
RendererInfos == {[calls |-> c, textures |-> 0, geometries |-> 0] : c \in {0, 200}}

\* frameTime > 0 ? 1000 / frameTime : 60
FpsOf(frameTime) ==
  IF frameTime > 0 THEN [num |-> 1000, den |-> frameTime] ELSE [num |-> 60, den |-> 1]
Less(a, b) == a.num * b.den < b.num * a.den

\* Math.round of the non-negative fraction num / den
RoundFraction(num, den) == (2 * num + den) \div (2 * den)

\* [...arr].sort((a, b) => a - b)[k], k counted from 0
SortedAt(arr, k) ==
  LET idx == 1..Len(arr)
      i == CHOOSE x \in idx :
             /\ Cardinality({j \in idx : Less(arr[j], arr[x])}) <= k
             /\ Cardinality({j \in idx : ~Less(arr[x], arr[j])}) > k
  IN arr[i]

\* calculateMedian(arr)
calculateMedian(arr) ==
  IF Len(arr) = 0 THEN 0
  ELSE LET mid == Len(arr) \div 2 IN
       IF Len(arr) % 2 = 0
         THEN LET a == SortedAt(arr, mid - 1)
                  b == SortedAt(arr, mid)
              IN RoundFraction(a.num * b.den + b.num * a.den, 2 * a.den * b.den)
         ELSE LET m == SortedAt(arr, mid) IN RoundFraction(m.num, m.den)

\* if (history.length > historySize) history.shift()
NoEvict(h) == h
Evict(h) == IF Len(h) > historySize THEN Tail(h) ELSE h

\* now - lastWarningTime < warningThrottleTime
NeverThrottled(now, last) == FALSE
Throttled(now, last) == now - last < warningThrottleTime

\* the number of warnings validateBudgets collects
WarningCount(medianFPS, frameTime, info) ==
  LET maxDrawCalls == IF isLandingScene THEN maxDrawCallsLanding ELSE maxDrawCallsTypical
      memoryMB2 == info.textures * 2 + info.geometries
  IN (IF medianFPS * 10 < targetFPS * 9 THEN 1 ELSE 0)
     + (IF frameTime * 10 > maxFrameTimeTenths THEN 1 ELSE 0)
     + (IF info.calls > maxDrawCalls THEN 1 ELSE 0)
     + (IF memoryMB2 > maxTextureMB * 2 THEN 1 ELSE 0)
     + (IF frameTime > maxStutterDuration THEN 1 ELSE 0)

\* update(), called when dt has passed since the previous call
Monitor_update(dt, info) ==
  LET now == clock + dt
      frameTime == now - lastFrameTime
      times == Evict(Append(frameTimeHistory, frameTime))
      fpss == Evict(Append(fpsHistory, FpsOf(frameTime)))
      count == WarningCount(calculateMedian(fpss), frameTime, info)
  IN
  /\ clock' = now
  /\ lastFrameTime' = now
  /\ frameTimeHistory' = times
  /\ fpsHistory' = fpss
  /\ samples' = Append(samples, frameTime)
  /\ updates' = updates + 1
  /\ IF Throttled(now, lastWarningTime)
       THEN /\ suppressed' = (IF count > 0 THEN Append(suppressed, now) ELSE suppressed)
            /\ UNCHANGED <<lastWarningTime, warnings>>
       ELSE IF count > 0
       THEN /\ lastWarningTime' = now
            /\ warnings' = Append(warnings, now)
            /\ UNCHANGED suppressed
       ELSE UNCHANGED <<lastWarningTime, warnings, suppressed>>
  /\ UNCHANGED <<isLandingScene, resets>>
  /\ UNCHANGED <<cameraVars, sceneVars, loaderVars, disposerVars, motionVars, inputVars, snapVars>>

\* setIsLandingScene(isLanding)
Monitor_setIsLandingScene(isLanding) ==
  /\ isLandingScene # isLanding
  /\ isLandingScene' = isLanding
  /\ UNCHANGED <<clock, lastFrameTime, frameTimeHistory, fpsHistory, lastWarningTime,
                 warnings, suppressed, updates, resets, samples>>
  /\ UNCHANGED <<cameraVars, sceneVars, loaderVars, disposerVars, motionVars, inputVars, snapVars>>

\* reset(), called when dt has passed since the previous call
Monitor_reset(dt) ==
  /\ Len(resets) < MaxResets
  /\ resets' = Append(resets, clock + dt)
  /\ clock' = clock + dt
  /\ lastFrameTime' = clock + dt
  /\ frameTimeHistory' = <<>>
  /\ fpsHistory' = <<>>
  /\ samples' = <<>>
  /\ UNCHANGED <<lastWarningTime, warnings, suppressed, updates, isLandingScene>>
  /\ UNCHANGED <<cameraVars, sceneVars, loaderVars, disposerVars, motionVars, inputVars, snapVars>>

\* ============================================================ InputHandler
\* The canvas rectangle is fixed; client positions are points <<clientX,
\* clientY>>, chosen so that the conversion to device coordinates is exact.

InputEvents == {"pointermove", "pointerdown", "pointerup", "pointerleave", "keydown",
                "keyup", "wheel", "touchstart", "touchmove", "touchend"}
KeyboardEvents == {"keydown", "keyup"}
\* canvas.getBoundingClientRect()
rect == [left |-> 0, top |-> 0, width |-> 2, height |-> 2]
\* the centre of the canvas, its top left corner, a point to the right of it
ClientPoints == {<<1, 1>>, <<0, 0>>, <<3, 1>>}
InsidePoints ==
  {p \in ClientPoints : /\ p[1] >= rect.left /\ p[1] <= rect.left + rect.width
                        /\ p[2] >= rect.top /\ p[2] <= rect.top + rect.height}
Fingers == {1, 2}
Keys == {"a", "A"}
WheelDeltas == {-100, 100}

\* key.toLowerCase()
toLowerCase(key) == IF key = "A" THEN "a" ELSE key

\* ((clientX - rect.left) / rect.width) * 2 - 1
NdcX(p) == ((p[1] - rect.left) * 2) \div rect.width - 1
\* -((clientY - rect.top) / rect.height) * 2 + 1
NdcY(p) == 1 - ((p[2] - rect.top) * 2) \div rect.height

\* the target setupEventListeners adds the listener of an event to
ListenerTarget(event) == IF event \in KeyboardEvents THEN "window" ELSE "canvas"
\* the target dispose() removes the listener of an event from
AlwaysCanvas(event) == "canvas"
RemovalTarget(event) == IF event \in KeyboardEvents THEN "window" ELSE "canvas"

\* the listener of a DOM event is still attached to the target it is sent to
Handled(event) == <<ListenerTarget(event), event>> \in inputListeners

\* a DOM event no listener receives
Ignore ==
  /\ ignored' = TRUE
  /\ UNCHANGED <<inputListeners, boundHandlers, pointer, keysPressed, lastKey,
                 scrollDelta, deltaOp>>

\* pointer.x, pointer.y and the deltas of a move
MoveTo(ptr, p) ==
  [ptr EXCEPT !.x = NdcX(p), !.y = NdcY(p),
              !.deltaX = NdcX(p) - ptr.x, !.deltaY = NdcY(p) - ptr.y]

KeepDeltas(ptr) == ptr
ZeroDeltas(ptr) == [ptr EXCEPT !.deltaX = 0, !.deltaY = 0]

\* the Touch list without the touch point of finger f
RECURSIVE Without(_, _)
Without(ts, f) ==
  IF ts = <<>> THEN <<>>
  ELSE IF Head(ts).id = f THEN Without(Tail(ts), f)
  ELSE <<Head(ts)>> \o Without(Tail(ts), f)

Down(ts) == {ts[i].id : i \in 1..Len(ts)}

\* no object was handed out yet
NoSnapshot == [taken |-> FALSE, shared |-> FALSE, value |-> 0]

\* handlePointerMove
Input_pointermove(p) ==
  /\ IF Handled("pointermove")
       THEN /\ pointer' = MoveTo(pointer, p)
            /\ deltaOp' = "move"
            /\ UNCHANGED <<inputListeners, boundHandlers, keysPressed, lastKey,
                           scrollDelta, ignored>>
       ELSE Ignore
  /\ UNCHANGED touches
  /\ UNCHANGED <<scrollLog, atReset>>
  /\ UNCHANGED snapVars
  /\ UNCHANGED <<cameraVars, sceneVars, loaderVars, disposerVars, motionVars, monitorVars>>

\* handlePointerDown (down = TRUE), handlePointerUp and handlePointerLeave
Input_pointerbutton(event, down) ==
  /\ IF Handled(event)
       THEN /\ pointer' = [pointer EXCEPT !.isDown = down]
            /\ UNCHANGED <<inputListeners, boundHandlers, keysPressed, lastKey,
                           scrollDelta, deltaOp, ignored>>
       ELSE Ignore
  /\ UNCHANGED touches
  /\ UNCHANGED <<scrollLog, atReset>>
  /\ UNCHANGED snapVars
  /\ UNCHANGED <<cameraVars, sceneVars, loaderVars, disposerVars, motionVars, monitorVars>>

\* handleKeyDown
Input_keydown(key) ==
  /\ IF Handled("keydown")
       THEN /\ keysPressed' = keysPressed \cup {toLowerCase(key)}
            /\ lastKey' = toLowerCase(key)
            /\ UNCHANGED <<inputListeners, boundHandlers, pointer, scrollDelta,
                           deltaOp, ignored>>
       ELSE Ignore
  /\ UNCHANGED touches
  /\ UNCHANGED <<scrollLog, atReset>>
  /\ UNCHANGED snapVars
  /\ UNCHANGED <<cameraVars, sceneVars, loaderVars, disposerVars, motionVars, monitorVars>>

\* handleKeyUp
Input_keyup(key) ==
  /\ IF Handled("keyup")
       THEN /\ keysPressed' = keysPressed \ {toLowerCase(key)}
            /\ UNCHANGED <<inputListeners, boundHandlers, pointer, lastKey, scrollDelta,
                           deltaOp, ignored>>
       ELSE Ignore
  /\ UNCHANGED touches
  /\ UNCHANGED <<scrollLog, atReset>>
  /\ UNCHANGED snapVars
  /\ UNCHANGED <<cameraVars, sceneVars, loaderVars, disposerVars, motionVars, monitorVars>>

\* a scroll delta that keeps the last wheel event only
Overwrite(delta, deltaY) == deltaY
\* this.scrollDelta += e.deltaY
Accumulate(delta, deltaY) == delta + deltaY

\* handleWheel
Input_wheel(deltaY) ==
  /\ scrollDelta + deltaY <= MaxScroll
  /\ scrollDelta + deltaY >= -MaxScroll
  /\ scrollLog.received + deltaY <= MaxWheelTotal
  /\ scrollLog.received + deltaY >= -MaxWheelTotal
  /\ IF Handled("wheel")
       THEN /\ scrollDelta' = Accumulate(scrollDelta, deltaY)
            /\ UNCHANGED <<inputListeners, boundHandlers, pointer, keysPressed, lastKey,
                           deltaOp, ignored>>
       ELSE Ignore
  /\ scrollLog' = (IF Handled("wheel") THEN [scrollLog EXCEPT !.received = @ + deltaY]
                   ELSE scrollLog)
  /\ UNCHANGED touches
  /\ UNCHANGED atReset
  /\ UNCHANGED snapVars
  /\ UNCHANGED <<cameraVars, sceneVars, loaderVars, disposerVars, motionVars, monitorVars>>

\* a finger is put down on the canvas: handleTouchStart
Input_touchstart(f, p) ==
  /\ f \notin Down(touches)
  /\ touches' = Append(touches, [id |-> f, at |-> p])
  /\ IF Handled("touchstart")
       THEN /\ pointer' = [pointer EXCEPT !.x = NdcX(touches'[1].at),
                                          !.y = NdcY(touches'[1].at), !.isDown = TRUE]
            /\ UNCHANGED <<inputListeners, boundHandlers, keysPressed, lastKey,
                           scrollDelta, deltaOp, ignored>>
       ELSE Ignore
  /\ UNCHANGED <<scrollLog, atReset>>
  /\ UNCHANGED snapVars
  /\ UNCHANGED <<cameraVars, sceneVars, loaderVars, disposerVars, motionVars, monitorVars>>

\* a finger that is down moves: handleTouchMove
Input_touchmove(f, p) ==
  /\ \E i \in 1..Len(touches) :
       /\ touches[i].id = f
       /\ touches[i].at # p
       /\ touches' = [touches EXCEPT ![i].at = p]
  /\ IF Handled("touchmove")
       THEN /\ pointer' = MoveTo(pointer, touches'[1].at)
            /\ deltaOp' = "move"
            /\ UNCHANGED <<inputListeners, boundHandlers, keysPressed, lastKey,
                           scrollDelta, ignored>>
       ELSE Ignore
  /\ UNCHANGED <<scrollLog, atReset>>
  /\ UNCHANGED snapVars
  /\ UNCHANGED <<cameraVars, sceneVars, loaderVars, disposerVars, motionVars, monitorVars>>

\* a finger is lifted: handleTouchEnd
Input_touchend(f) ==
  /\ f \in Down(touches)
  /\ touches' = Without(touches, f)
  /\ IF Handled("touchend")
       THEN /\ pointer' = ZeroDeltas([pointer EXCEPT !.isDown = FALSE])
            /\ UNCHANGED <<inputListeners, boundHandlers, keysPressed, lastKey,
                           scrollDelta, deltaOp, ignored>>
       ELSE Ignore
  /\ UNCHANGED <<scrollLog, atReset>>
  /\ UNCHANGED snapVars
  /\ UNCHANGED <<cameraVars, sceneVars, loaderVars, disposerVars, motionVars, monitorVars>>

\* getScrollDelta()
Input_getScrollDelta ==
  /\ scrollDelta' = 0
  /\ scrollLog' = [scrollLog EXCEPT !.returned = @ + scrollDelta]
  /\ UNCHANGED <<inputListeners, boundHandlers, pointer, keysPressed, lastKey, touches,
                 deltaOp, ignored>>
  /\ UNCHANGED atReset
  /\ UNCHANGED snapVars
  /\ UNCHANGED <<cameraVars, sceneVars, loaderVars, disposerVars, motionVars, monitorVars>>

\* resetDeltas()
Input_resetDeltas ==
  /\ pointer' = ZeroDeltas(pointer)
  /\ deltaOp' = "reset"
  /\ atReset' = [x |-> pointer.x, y |-> pointer.y]
  /\ UNCHANGED <<inputListeners, boundHandlers, keysPressed, lastKey, scrollDelta,
                 touches, ignored>>
  /\ UNCHANGED scrollLog
  /\ UNCHANGED snapVars
  /\ UNCHANGED <<cameraVars, sceneVars, loaderVars, disposerVars, motionVars, monitorVars>>

\* dispose()
Input_dispose ==
  /\ inputListeners' = inputListeners \ {<<RemovalTarget(e), e>> : e \in boundHandlers}
  /\ boundHandlers' = {}
  /\ keysPressed' = {}
  /\ UNCHANGED <<pointer, lastKey, scrollDelta, touches, deltaOp, ignored>>
  /\ UNCHANGED <<scrollLog, atReset>>
  /\ UNCHANGED snapVars
  /\ UNCHANGED <<cameraVars, sceneVars, loaderVars, disposerVars, motionVars, monitorVars>>

\* an object that is the handler's own pointer record
SharePointer(ptr) == [taken |-> TRUE, shared |-> TRUE, value |-> ptr]
\* { ...this.pointer }: a new object holding the current values
CopyPointer(ptr) == [taken |-> TRUE, shared |-> FALSE, value |-> ptr]

\* { keysPressed: new Set(this.keyboard.keysPressed), lastKey }: a new object
\* with a new Set
CopyKeyboard(keys, key) ==
  [taken |-> TRUE, shared |-> FALSE, value |-> [keysPressed |-> keys, lastKey |-> key]]

\* what a consumer reads from the object getPointerState() returned
ViewPointer == IF pointerSnap.shared THEN pointer ELSE pointerSnap.value
\* what a consumer reads from the object getKeyboardState() returned
ViewKeyboard ==
  IF keyboardSnap.shared
    THEN [keysPressed |-> keysPressed, lastKey |-> keyboardSnap.value.lastKey]
    ELSE keyboardSnap.value

\* getPointerState()
Input_getPointerState ==
  /\ pointerSnap' = CopyPointer(pointer)
  /\ UNCHANGED <<inputVars, keyboardSnap>>
  /\ UNCHANGED <<cameraVars, sceneVars, loaderVars, disposerVars, motionVars, monitorVars>>

\* getKeyboardState()
Input_getKeyboardState ==
  /\ keyboardSnap' = CopyKeyboard(keysPressed, lastKey)
  /\ UNCHANGED <<inputVars, pointerSnap>>
  /\ UNCHANGED <<cameraVars, sceneVars, loaderVars, disposerVars, motionVars, monitorVars>>

\* a consumer writes to the pointer state it was handed: state.isDown = !state.isDown
Consumer_mutatePointer ==
  /\ pointerSnap.taken
  /\ IF pointerSnap.shared
       THEN /\ pointer' = [pointer EXCEPT !.isDown = ~@]
            /\ UNCHANGED pointerSnap
       ELSE /\ pointerSnap' = [pointerSnap EXCEPT !.value.isDown = ~@]
            /\ UNCHANGED pointer
  /\ UNCHANGED <<inputListeners, boundHandlers, keysPressed, lastKey, scrollDelta, touches,
                 deltaOp, ignored, scrollLog, atReset, keyboardSnap>>
  /\ UNCHANGED <<cameraVars, sceneVars, loaderVars, disposerVars, motionVars, monitorVars>>

\* a consumer writes to the key set it was handed: state.keysPressed.add('z')
Consumer_mutateKeys ==
  /\ keyboardSnap.taken
  /\ IF keyboardSnap.shared
       THEN /\ keysPressed' = keysPressed \cup {"z"}
            /\ UNCHANGED keyboardSnap
       ELSE /\ keyboardSnap' = [keyboardSnap EXCEPT !.value.keysPressed = @ \cup {"z"}]
            /\ UNCHANGED keysPressed
  /\ UNCHANGED <<inputListeners, boundHandlers, pointer, lastKey, scrollDelta, touches,
                 deltaOp, ignored, scrollLog, atReset, pointerSnap>>
  /\ UNCHANGED <<cameraVars, sceneVars, loaderVars, disposerVars, motionVars, monitorVars>>

InitCore ==
  /\ tweenStatus = [i \in TweenIds |-> "none"]
  /\ tweenTarget = [i \in TweenIds |-> "free"]
  /\ activeTween = 0
  /\ resolveCount = [i \in TweenIds |-> 0]
  /\ hookCount = [i \in TweenIds |-> 0]
  /\ parallaxTween = "none"
  /\ aspect = 1
  /\ resized = 0
  /\ booting = TRUE
  /\ currentSceneId = FirstScene
  /\ previousSceneId = NoScene
  /\ isTransitioning = FALSE
  /\ trans = [t \in NavIds |-> NoTrans]
  /\ sceneState = [s \in SceneIds |-> IF s = FirstScene THEN "initing" ELSE "none"]
  /\ mountCount = [s \in SceneIds |-> 0]
  /\ disposeCount = [s \in SceneIds |-> 0]
  /\ lastUpdated = {}

\* a new AssetLoader; setOnError may or may not have been called
InitAssets(errorSet) ==
  /\ cache = [k \in Kinds |-> [u \in Urls |-> 0]]
  /\ calls = [c \in CallIds |-> NoCall]
  /\ fetchCount = [c \in CallIds |-> 0]
  /\ delays = [c \in CallIds |-> <<>>]
  /\ errorCalls = [c \in CallIds |-> <<>>]
  /\ overlap = {}
  /\ objects = 0
  /\ disposedObjects = {}
  /\ onErrorSet \in errorSet
  /\ fresh = {}
  /\ later = {}
  /\ preload = NoPreload
  /\ stale = {}

\* an object graph nothing has been disposed of yet
InitGraph(graphs, parents) ==
  /\ graph \in graphs
  /\ parent \in parents
  /\ shape = parent
  /\ dcount = [r \in Resources |-> 0]
  /\ dlog = <<>>
  /\ dcalls = <<>>
  /\ dkinds = <<>>
  /\ callDisposed = <<>>
  /\ escaped = FALSE

\* nothing has used ReducedMotion yet
InitMotion(windows, preferences) ==
  /\ hasWindow \in windows
  /\ matches \in preferences
  /\ mediaQuery = 0
  /\ queries = 0
  /\ attached = {}
  /\ listeners = {}
  /\ subs = [h \in SubIds |-> NoSub]
  /\ notified = [f \in Callbacks |-> 0]
  /\ changes = 0
  /\ cleanups = 0
  /\ duration = NoDuration

\* a PerformanceMonitor constructed at one of the given times
InitMonitor(starts) ==
  /\ clock \in starts
  /\ lastFrameTime = clock
  /\ frameTimeHistory = <<>>
  /\ fpsHistory = <<>>
  /\ lastWarningTime = 0
  /\ isLandingScene = TRUE
  /\ warnings = <<>>
  /\ suppressed = <<>>
  /\ updates = 0
  /\ resets = <<>>
  /\ samples = <<>>

\* an InputHandler constructed on the canvas
InitInput ==
  /\ inputListeners = {<<ListenerTarget(e), e>> : e \in InputEvents}
  /\ boundHandlers = InputEvents
  /\ pointer = [x |-> 0, y |-> 0, deltaX |-> 0, deltaY |-> 0, isDown |-> FALSE]
  /\ keysPressed = {}
  /\ lastKey = "null"
  /\ scrollDelta = 0
  /\ touches = <<>>
  /\ deltaOp = "none"
  /\ ignored = FALSE
  /\ scrollLog = [received |-> 0, returned |-> 0]
  /\ atReset = [x |-> 0, y |-> 0]
  /\ pointerSnap = NoSnapshot
  /\ keyboardSnap = NoSnapshot

InitRest == InitMotion({TRUE}, {FALSE}) /\ InitMonitor({6000}) /\ InitInput

Init == InitCore /\ InitAssets({FALSE}) /\ InitGraph({EmptyGraph}, {Chain}) /\ InitRest

InitLoader ==
  InitCore /\ InitAssets(BOOLEAN) /\ InitGraph({EmptyGraph}, {Chain}) /\ InitRest

InitDisposer ==
  InitCore /\ InitAssets({FALSE}) /\ InitGraph(Graphs, {Chain, Fan}) /\ InitRest

InitMotionOnly ==
  /\ InitCore /\ InitAssets({FALSE}) /\ InitGraph({EmptyGraph}, {Chain})
  /\ InitMotion(BOOLEAN, BOOLEAN)
  /\ InitMonitor({6000})
  /\ InitInput

InitMonitorOnly ==
  /\ InitCore /\ InitAssets({FALSE}) /\ InitGraph({EmptyGraph}, {Chain})
  /\ InitMotion({TRUE}, {FALSE})
  /\ InitMonitor(StartTimes)
  /\ InitInput

\* the calls other components make on the camera during a scene transition
CameraCalls ==
  \/ Camera_transitionTo("free")
  \/ Camera_setPosition("free")
  \/ Camera_cancelTransition
  \/ Camera_dispose

Next ==
  \/ CameraCalls
  \/ \E i \in TweenIds : TweenStart(i)
  \/ \E i \in TweenIds : TweenComplete(i)
  \/ Scene_boot
  \/ \E s \in SceneIds : Scene_transitionTo(s)
  \/ \E t \in NavIds : Scene_initResolved(t)
  \/ \E t \in NavIds : Scene_initRejected(t)
  \/ Frame

Spec == Init /\ [][Next]_vars

\* the GSAP ticker keeps ticking, so a live timeline starts and ends
SpecLive ==
  /\ Init
  /\ [][Next]_vars
  /\ \A i \in TweenIds : WF_vars(TweenStart(i)) /\ WF_vars(TweenComplete(i))

\* the CameraController on its own, under every call of its interface
NextCamera ==
  \/ \E p \in Positions : Camera_transitionTo(p)
  \/ \E p \in Positions : Camera_setPosition(p)
  \/ Camera_cancelTransition
  \/ Camera_dispose
  \/ Camera_applyParallax
  \/ \E v \in Viewports : Camera_updateAspect(v)
  \/ \E i \in TweenIds : TweenStart(i)
  \/ \E i \in TweenIds : TweenComplete(i)
  \/ ParallaxTick

SpecCamera == Init /\ [][NextCamera]_vars

\* the AssetLoader on its own, a few calls under every retry limit
NextLoader ==
  \/ \E k \in Kinds, u \in Urls, n \in RetryChoices :
       Cardinality(CallIds \ FreeCalls) < MaxRetriedCalls /\ Loader_load(k, u, n)
  \/ \E c \in CallIds : Loader_fetchSucceeded(c)
  \/ \E c \in CallIds : Loader_fetchFailed(c)
  \/ \E c \in CallIds : Loader_delayElapsed(c)

SpecLoader == InitLoader /\ [][NextLoader]_vars

\* ResourceDisposer.disposeAll on the nodes of an object graph
NextDisposeAll == \E n \in {0} \cup NodeIds : Disposer_disposeAll(n)

SpecDisposeAll == InitDisposer /\ [][NextDisposeAll]_vars

\* the AssetLoader under calls whose retry limit allows one attempt or none
NextNoRetry ==
  \/ \E k \in Kinds, u \in Urls, n \in NoRetryChoices :
       Cardinality(CallIds \ FreeCalls) < MaxRetriedCalls /\ Loader_load(k, u, n)
  \/ \E c \in CallIds : Loader_fetchSucceeded(c)
  \/ \E c \in CallIds : Loader_fetchFailed(c)
  \/ Loader_clearCache

SpecNoRetry == InitLoader /\ [][NextNoRetry]_vars

\* the AssetLoader's cache, under more calls that each make one attempt
NextCache ==
  \/ \E k \in Kinds, u \in Urls : Loader_load(k, u, 1)
  \/ \E c \in CallIds : Loader_fetchSucceeded(c)
  \/ \E c \in CallIds : Loader_fetchFailed(c)
  \/ Loader_clearCache

SpecCache == InitLoader /\ [][NextCache]_vars

\* one preloadAssets call on an AssetLoader
NextPreload ==
  \/ \E k \in Kinds, u \in Urls : preload.pc = "none" /\ Loader_load(k, u, 1)
  \/ \E ms \in PreloadLists, ts \in PreloadLists : Loader_preloadAssets(ms, ts)
  \/ \E c \in CallIds : Loader_fetchSucceeded(c)
  \/ \E c \in CallIds : Loader_fetchFailed(c)
  \/ \E c \in CallIds : Loader_delayElapsed(c)

SpecPreload == InitLoader /\ [][NextPreload]_vars

\* the ResourceDisposer on its own
NextDisposer ==
  \/ \E n \in NodeIds \cup {0} : Disposer_disposeObject3D(n)
  \/ \E n \in {0, 1} : Disposer_disposeScene(n)

SpecDisposer == InitDisposer /\ [][NextDisposer]_vars

\* ReducedMotion's subscriptions
NextMotion ==
  \/ \E f \in Callbacks : Motion_subscribe(f)
  \/ \E h \in SubIds : Motion_unsubscribe(h)
  \/ Motion_preferenceChange
  \/ Motion_cleanup
  \/ Motion_isReduced

SpecMotion == InitMotionOnly /\ [][NextMotion]_vars

\* ReducedMotion's duration helper, while the preference changes
NextDuration ==
  \/ \E n \in NormalDurations : Motion_getAdjustedDuration(n, DefaultReducedMs, FALSE)
  \/ \E n \in NormalDurations, r \in ReducedDurations :
       Motion_getAdjustedDuration(n, r, TRUE)
  \/ Motion_preferenceChange
  \/ Motion_cleanup

SpecDuration == InitMotionOnly /\ [][NextDuration]_vars

\* the PerformanceMonitor, updated and reset at freely chosen times
NextMonitor ==
  \/ \E dt \in Steps, info \in RendererInfos :
       updates < MaxUpdates /\ Monitor_update(dt, info)
  \/ \E b \in BOOLEAN : Monitor_setIsLandingScene(b)
  \/ \E dt \in Steps : Monitor_reset(dt)

SpecMonitor == InitMonitorOnly /\ [][NextMonitor]_vars

\* the frame times of a long run: regular frames, then any of two
FrameTimes(k) == IF k < historySize - 2 THEN {10 + (k % 3) * 5} ELSE {10, 20}

\* the PerformanceMonitor over more frames than its histories hold
NextHistory ==
  \E dt \in FrameTimes(updates), info \in RendererInfos :
    updates < MaxFrames /\ info.calls = 0 /\ Monitor_update(dt, info)

SpecHistory == InitMonitorOnly /\ [][NextHistory]_vars

\* the InputHandler under DOM events and the calls of the render loop
NextInput ==
  \/ \E p \in InsidePoints : Input_pointermove(p)
  \/ Input_pointerbutton("pointerdown", TRUE)
  \/ Input_pointerbutton("pointerup", FALSE)
  \/ Input_pointerbutton("pointerleave", FALSE)
  \/ \E key \in Keys : Input_keydown(key)
  \/ \E key \in Keys : Input_keyup(key)
  \/ \E d \in WheelDeltas : Input_wheel(d)
  \/ \E f \in Fingers, p \in InsidePoints : Input_touchstart(f, p)
  \/ \E f \in Fingers, p \in ClientPoints : Input_touchmove(f, p)
  \/ \E f \in Fingers : Input_touchend(f)
  \/ Input_resetDeltas
  \/ Input_dispose

SpecInput == Init /\ [][NextInput]_vars

\* the InputHandler under mouse, keyboard and wheel events, its scroll delta
\* being read
NextScroll ==
  \/ \E d \in WheelDeltas : Input_wheel(d)
  \/ Input_getScrollDelta
  \/ \E p \in InsidePoints : Input_pointermove(p)
  \/ Input_pointerbutton("pointerdown", TRUE)
  \/ Input_pointerbutton("pointerup", FALSE)
  \/ \E key \in Keys : Input_keydown(key)
  \/ \E key \in Keys : Input_keyup(key)
  \/ Input_dispose

SpecScroll == Init /\ [][NextScroll]_vars

\* the InputHandler and a consumer of the pointer and keyboard states it returns
NextSnapshot ==
  \/ \E p \in InsidePoints : Input_pointermove(p)
  \/ Input_pointerbutton("pointerdown", TRUE)
  \/ Input_pointerbutton("pointerup", FALSE)
  \/ \E key \in Keys : Input_keydown(key)
  \/ \E key \in Keys : Input_keyup(key)
  \/ Input_resetDeltas
  \/ Input_getPointerState
  \/ Input_getKeyboardState
  \/ Consumer_mutatePointer
  \/ Consumer_mutateKeys

SpecSnapshot == Init /\ [][NextSnapshot]_vars

\* ================================================================ claims

\* ---- C1: loadModel / loadTexture called again for the same url before the
\* first call has settled issues no second loader fetch (at most one fetch of
\* an asset is outstanding), and the callers receive the same result object.
C1_CoalescedFetch ==
  /\ \A c, d \in CallIds :
       (c # d /\ calls[c].pc = "fetching" /\ calls[d].pc = "fetching")
         => ~SameAsset(c, calls[d].kind, calls[d].url)
  /\ \A p \in overlap :
       (calls[p[1]].pc = "resolved" /\ calls[p[2]].pc = "resolved")
         => calls[p[1]].result = calls[p[2]].result

\* ---- C2: calling the disposer twice on the same object graph (or on null)
\* is the same as calling it once: no call lets an error escape, and a later
\* call on a root calls dispose() on no resource an earlier call on that root
\* already disposed.
C2_DisposeIdempotent ==
  /\ ~escaped
  /\ \A i, j \in 1..Len(dcalls) :
       (i < j /\ dcalls[i] = dcalls[j] /\ dkinds[i] = dkinds[j])
         => callDisposed[i] \cap callDisposed[j] = {}

\* ---- C3: after any sequence of transitionTo, setPosition, cancelTransition
\* and dispose calls at most one transition animation is alive (created and
\* neither completed nor killed), and it is the one activeTween refers to:
\* every transitionTo kills the previously active animation first.
C3_AtMostOneAlive ==
  /\ Cardinality(Alive(tweenStatus)) <= 1
  /\ \A i \in Alive(tweenStatus) : activeTween = i

\* C3 witness: a second transitionTo has killed the first timeline and its
\* own timeline is alive
C3_Witness ==
  \E i, j \in TweenIds :
    /\ i < j
    /\ tweenStatus[i] = "killed"
    /\ tweenStatus[j] \in {"created", "running"}
    /\ activeTween = j

PromiseState ==
  \A i \in TweenIds :
    /\ resolveCount[i] <= 1
    /\ (resolveCount[i] = 1) <=> (tweenStatus[i] = "completed")
    /\ tweenStatus[i] = "killed" => (resolveCount[i] = 0 /\ hookCount[i] = 0)

KilledStaysPending ==
  \A i \in TweenIds :
    tweenStatus[i] = "killed" =>
      (tweenStatus'[i] = "killed" /\ resolveCount'[i] = 0 /\ hookCount'[i] = 0)

\* ---- C4: the promise returned by transitionTo resolves at most once, it is
\* resolved exactly when its timeline completed naturally, and once the
\* timeline is killed (by a later transitionTo, setPosition, cancelTransition
\* or dispose) the promise stays pending and onComplete never fires.
C4_ResolvesOnlyOnCompletion == []PromiseState /\ [][KilledStaysPending]_vars

\* C4 witness: one timeline was cancelled and stays pending, another
\* completed and resolved its promise
C4_Witness ==
  \E i, j \in TweenIds :
    /\ tweenStatus[i] = "killed" /\ resolveCount[i] = 0
    /\ tweenStatus[j] = "completed" /\ resolveCount[j] = 1 /\ hookCount[j] = 1

RejectedIsNoOp ==
  \A t \in NavIds :
    (trans[t].pc = "none" /\ trans'[t].pc # "none"
       /\ (isTransitioning \/ trans'[t].to = currentSceneId)) =>
      /\ trans'[t].pc = "rejected"
      /\ InFlight' = InFlight
      /\ UNCHANGED <<currentSceneId, previousSceneId, isTransitioning, sceneState,
                     mountCount, disposeCount>>

NotQueued ==
  \A t \in NavIds : trans[t].pc = "rejected" => trans'[t].pc = "rejected"

\* ---- C5: at most one scene transition is in flight; a navigation call made
\* while one is in flight, or to the current scene, is rejected, leaves
\* currentSceneId, previousSceneId, isTransitioning and the scenes unchanged,
\* and is never taken up later (not queued).
C5_SingleTransition ==
  /\ [](Cardinality(InFlight) <= 1)
  /\ [][RejectedIsNoOp]_vars
  /\ [][NotQueued]_vars

\* C5 witness: a call was rejected while an earlier navigation is in flight
C5_Witness ==
  \E t, u \in NavIds :
    /\ t < u
    /\ trans[t].pc \in {"init", "camera"}
    /\ trans[u].pc = "rejected"
    /\ trans[u].to # currentSceneId

ReturnedToIdle(t) ==
  /\ trans[t].pc = "done"
  /\ ~isTransitioning
  /\ currentSceneId = trans[t].to
  /\ previousSceneId = trans[t].from

CameraCancelled(t) == trans[t].pc = "camera" /\ tweenStatus[trans[t].tween] = "killed"

StuckOnceCancelled ==
  \A t \in NavIds : CameraCancelled(t) => (CameraCancelled(t)' /\ isTransitioning')

AbortStep ==
  \A t \in NavIds :
    (trans[t].pc = "init" /\ trans'[t].pc = "failed") =>
      /\ currentSceneId' = trans[t].from
      /\ ActiveScenes' = {trans[t].from}
      /\ disposeCount' = disposeCount
      /\ mountCount' = mountCount
      /\ ~isTransitioning'
      /\ \A s \in SceneIds \ {trans[t].from} : ~NavRejected(s)'

FailedIsFinal ==
  \A t \in NavIds : trans[t].pc = "failed" => trans'[t].pc = "failed"

\* ---- C7: when B.init() rejects, the transition is aborted: A stays the
\* current and only mounted scene (the one the render loop updates), no
\* dispose() or mount() is called, isTransitioning is FALSE again so that a
\* navigation to any other scene is accepted, and the aborted call does
\* nothing later.
C7_InitFailureAborts == [][AbortStep]_vars /\ [][FailedIsFinal]_vars

\* C7 witness: after an aborted navigation the loop rendered A and a later
\* navigation was accepted
C7_Witness ==
  \E t, u \in NavIds :
    /\ t < u
    /\ trans[t].pc = "failed"
    /\ trans[u].pc = "init"
    /\ trans[u].from = trans[t].from
    /\ lastUpdated = {trans[t].from}

\* ---- C8: within a transition from A to B, B is not mounted and A is not
\* disposed while B.init() has not completed.
C8_InitBeforeSwap ==
  \A t \in NavIds :
    trans[t].pc = "init" =>
      /\ sceneState[trans[t].to] = "initing"
      /\ sceneState[trans[t].from] = "mounted"

\* C8 witness: B's init() has completed, and only then A was disposed and B
\* mounted
C8_Witness ==
  \E t \in NavIds :
    /\ trans[t].pc = "camera"
    /\ sceneState[trans[t].to] = "mounted"
    /\ sceneState[trans[t].from] = "disposed"
    /\ disposeCount[trans[t].from] = 1

\* ---- C9: once the first scene is mounted, exactly one scene is mounted in
\* every state, during a transition too.
C9_ExactlyOneMounted == ~booting => Cardinality(ActiveScenes) = 1

\* C9 witness: in the middle of a transition the incoming scene is the one
\* mounted scene
C9_Witness ==
  \E t \in NavIds :
    /\ trans[t].pc = "camera"
    /\ tweenStatus[trans[t].tween] = "running"
    /\ ActiveScenes = {trans[t].to}

\* ---- C10: a parallax tween and a directed transition never run at the same
\* time: while a transition is active no applyParallax tween is animating.
C10_NoParallaxDuringTransition ==
  ~(isTransitioning_camera /\ parallaxTween = "alive")

\* the waits of a call are 1 s, 2 s, 4 s, ... in this order
Exponential(ds) == \A i \in 1..Len(ds) : ds[i] = (2 ^ (i - 1)) * 1000
Increasing(ds) == \A i, j \in 1..Len(ds) : i < j => ds[i] < ds[j]
Max0(n) == IF n < 0 THEN 0 ELSE n

\* ---- C11: when every fetch of a call with maxRetries = n fails, the call
\* makes exactly n fetch attempts and then rejects; the wait between attempt k
\* and attempt k+1 is 2^k seconds, so the waits strictly increase; there is no
\* wait after a successful attempt or after the final failed one.
C11_RetrySchedule ==
  \A c \in CallIds :
    /\ Exponential(delays[c]) /\ Increasing(delays[c])
    /\ calls[c].pc = "rejected" =>
         /\ fetchCount[c] = calls[c].maxRetries
         /\ Len(delays[c]) = Max0(calls[c].maxRetries - 1)
    /\ calls[c].pc = "fetching" => Len(delays[c]) = fetchCount[c] - 1
    /\ calls[c].pc = "delaying" =>
         Len(delays[c]) = fetchCount[c] /\ fetchCount[c] < calls[c].maxRetries
    /\ calls[c].pc = "resolved" => Len(delays[c]) = Max0(fetchCount[c] - 1)

\* a call with three attempts failed three times after waiting 1 s and 2 s
C11_Witness ==
  \E c \in CallIds :
    /\ calls[c].pc = "rejected" /\ calls[c].maxRetries = DefaultRetries
    /\ fetchCount[c] = 3 /\ delays[c] = <<1000, 2000>>

\* ---- C12: with an error callback registered, a call that exhausts its
\* retries invokes it exactly once, with the cause of the final failure; a
\* call that has not failed for good (still retrying, or resolved, also after
\* failed attempts) has not invoked it.
C12_ErrorCallbackOnce ==
  onErrorSet =>
    \A c \in CallIds :
      IF calls[c].pc = "rejected"
        THEN errorCalls[c] =
               << IF calls[c].lastError # "null" THEN calls[c].lastError
                                                  ELSE "exhausted" >>
        ELSE errorCalls[c] = <<>>

\* a call made after another call for the same asset resolved, with no
\* clearCache() in between, gets that call's object without fetching
LaterCallsHit ==
  \A p \in later :
    /\ calls[p[2]].pc = "resolved"
    /\ calls[p[2]].result = calls[p[1]].result
    /\ fetchCount[p[2]] = 0
FailureKeepsCache ==
  \A c \in CallIds :
    (calls[c].pc # "rejected" /\ calls'[c].pc = "rejected") => cache' = cache

\* ---- C13: once a call for a url has resolved, every later call for the url
\* resolves with the identical object and starts no fetch, as long as
\* clearCache() has not been called; a failing call leaves the cache unchanged.
C13_CachedResultReused == []LaterCallsHit /\ [][FailureKeepsCache]_vars

EntriesKept == \A k \in Kinds, u \in Urls : cache[k][u] # 0 => cache'[k][u] = cache[k][u]
ClearEmpties ==
  Loader_clearCache =>
    /\ \A k \in Kinds, u \in Urls : cache'[k][u] = 0
    /\ \A k \in Kinds, u \in Urls : cache[k][u] # 0 => cache[k][u] \in disposedObjects'

\* ---- C14: a cached url stays cached, mapped to the same object, across
\* every operation except clearCache(); clearCache() hands every cached
\* object to the disposer and leaves both cache maps empty.
C14_EvictedOnlyByClear ==
  [][EntriesKept \/ Loader_clearCache]_vars /\ [][ClearEmpties]_vars

PreloadState ==
  /\ preload.pc = "resolved" =>
       \A k \in Kinds :
         /\ Len(preload.result[k]) = Len(preload.urls[k])
         /\ \A i \in 1..Len(preload.urls[k]) :
              LET c == preload.ids[k][i] IN
              /\ calls[c].pc = "resolved"
              /\ calls[c].kind = k /\ calls[c].url = preload.urls[k][i]
              /\ preload.result[k][i] = calls[c].result
  /\ preload.pc = "pending" =>
       /\ \A c \in Members(preload) : calls[c].pc # "rejected"
       /\ \E c \in Members(preload) : Unsettled(c)
  /\ preload.pc = "rejected" =>
       \E c \in Members(preload) :
         calls[c].pc = "rejected" /\ fetchCount[c] = DefaultRetries
LoadsGoOn ==
  \A c \in Members(preload) :
    /\ (calls[c].pc = "fetching" /\ calls'[c].pc = "resolved")
         => cache'[calls[c].kind][calls[c].url] = calls'[c].result
    /\ (preload.pc = "pending" /\ preload'.pc = "rejected" /\ calls[c].pc # "fetching")
         => calls'[c] = calls[c]

\* ---- C15: preloadAssets resolves only after every listed model and texture
\* has loaded, with the results in the order of the input lists; it rejects as
\* soon as a listed asset exhausts its retries; the other listed loads are not
\* cancelled by the rejection and enter the cache when they succeed.
C15_PreloadAll == []PreloadState /\ [][LoadsGoOn]_vars

\* the preload rejected, and a listed asset loaded and was cached afterwards
C15_Witness ==
  /\ preload.pc = "rejected"
  /\ \E c \in Members(preload) \ preload.early :
       /\ calls[c].pc = "resolved"
       /\ cache[calls[c].kind][calls[c].url] = calls[c].result

\* the object graph as it was before the disposer ran
RECURSIVE Under(_, _)
Under(d, n) == d = n \/ (shape[d] # 0 /\ Under(shape[d], n))
Subtree(n) == {d \in NodeIds : Under(d, n)}
OwnResources(n) ==
  ({graph.geom[n]} \ {NoResource}) \cup Range(graph.mats[n])
    \cup UNION {Range(graph.texs[m]) : m \in Range(graph.mats[n])}
SubtreeResources(n) == UNION {OwnResources(d) : d \in Subtree(n)}
\* one call has been made, disposeObject3D on a node of the graph
FirstObjectCall == Len(dcalls) = 1 /\ dkinds[1] = "object3d" /\ dcalls[1] # 0
LogIndex == 1..Len(dlog)

\* ---- C16: disposeObject3D(root) calls dispose() exactly once on every
\* geometry, material and texture reachable from root, also on one shared by
\* several objects or held by several properties of a material, and root is
\* detached from its parent afterwards.
C16_ReachableDisposedOnce ==
  FirstObjectCall =>
    /\ \A r \in SubtreeResources(dcalls[1]) : dcount[r] = 1
    /\ parent[dcalls[1]] = 0

\* ---- C17: disposeObject3D disposes children before parents: for every
\* parent and child of the disposed graph, every resource of the child and of
\* its descendants has been disposed, and the child detached, before the first
\* resource of the parent is disposed.
C17_ChildrenBeforeParents ==
  FirstObjectCall =>
    \A p, c \in Subtree(dcalls[1]) :
      shape[c] = p =>
        /\ \A d \in Subtree(c) : \A r \in OwnResources(d) :
             \E i \in LogIndex : dlog[i] = [op |-> "dispose", id |-> r, node |-> d]
        /\ \E i \in LogIndex : dlog[i] = [op |-> "detach", id |-> NodeName[c], node |-> c]
        /\ \A i, j \in LogIndex :
             (dlog[i].node \in Subtree(c) /\ dlog[j].node = p /\ dlog[j].op = "dispose")
               => i < j

\* a chain of three objects, each with resources of its own, was disposed
C17_Witness ==
  /\ FirstObjectCall /\ dcalls[1] = 1 /\ shape = Chain
  /\ \A n \in NodeIds : OwnResources(n) # {}
  /\ \E i \in LogIndex : dlog[i].op = "dispose" /\ dlog[i].node = 1

\* ---- C18: when dispose() of a resource throws inside disposeObject3D,
\* disposeScene or disposeMaterial, no exception reaches the caller, dispose()
\* has still been called on every other resource of the graph (siblings, the
\* other materials of an array, the geometry, the material owning a failing
\* texture), and the objects are still detached.
C18_FailuresIsolated ==
  /\ ~escaped
  /\ FirstObjectCall =>
       /\ \A r \in SubtreeResources(dcalls[1]) : dcount[r] >= 1
       /\ \A d \in Subtree(dcalls[1]) : parent[d] = 0
  /\ (Len(dcalls) = 1 /\ dkinds[1] = "scene" /\ dcalls[1] # 0) =>
       \A d \in Subtree(dcalls[1]) \ {dcalls[1]} :
         /\ parent[d] = 0
         /\ \A r \in OwnResources(d) : dcount[r] >= 1

\* a dispose() threw, and resources after it in the traversal were disposed
C18_Witness ==
  /\ Len(dcalls) = 1 /\ dcalls[1] # 0
  /\ \E i, j \in LogIndex :
       /\ i < j
       /\ dlog[i].op = "dispose" /\ dlog[i].id \in graph.throws
       /\ dlog[j].op = "dispose" /\ dlog[j].id # dlog[i].id

\* ---- C19: getAdjustedDuration(normal) returns exactly normal while the
\* reduced-motion preference is inactive; while it is active it returns the
\* reduced duration that was passed, or, when none was passed, a value that
\* is at most 1% of normal, for every positive normal.
C19_AdjustedDuration ==
  duration.called =>
    IF ~duration.active THEN duration.result = duration.normal
    ELSE IF duration.explicit THEN duration.result = duration.reduced
    ELSE duration.result * 100 <= duration.normal

ActiveSubs(f) == {h \in SubIds : subs[h].state = "active" /\ subs[h].cb = f}
NotifiedOncePerChange ==
  (matches' # matches) =>
    \A f \in Callbacks :
      notified'[f] - notified[f] = IF ActiveSubs(f) # {} THEN 1 ELSE 0

\* ---- C20: after any subscribe and unsubscribe-handle calls, a preference
\* change calls the callback of every subscription made and not yet
\* unsubscribed exactly once (also when the callback was subscribed twice and
\* one of the two handles was called), and calls no callback whose
\* subscriptions have all been unsubscribed.
C20_SubscribersNotifiedOnce == [][cleanups = 0 => NotifiedOncePerChange]_vars

CleanupClears == (cleanups' # cleanups) => (listeners' = {} /\ attached' = {})
StaleHandleHarmless ==
  \A h \in SubIds :
    (subs[h].state # "none" /\ subs[h].epoch < cleanups /\ Motion_unsubscribe(h))
      => (listeners' = listeners /\ attached' = attached)
CurrentSubs(f) ==
  {h \in SubIds : subs[h].state = "active" /\ subs[h].cb = f /\ subs[h].epoch = cleanups}
OnlyCurrentNotified ==
  (matches' # matches) =>
    \A f \in Callbacks :
      /\ CurrentSubs(f) = {} => notified'[f] = notified[f]
      /\ CurrentSubs(f) # {} => notified'[f] > notified[f]

\* ---- C29: cleanup() leaves no subscriber and no attached listener; a
\* callback subscribed only before the cleanup is not notified again; calling
\* a handle obtained before the cleanup does not affect subscriptions made
\* after it; a subscription made after the cleanup is notified on the next
\* preference change.
C29_CleanupIsFinal ==
  [][CleanupClears]_vars /\ [][StaleHandleHarmless]_vars /\ [][OnlyCurrentNotified]_vars

\* ---- C27: isTransitioning() is true exactly when a transition started by
\* transitionTo has neither completed nor been cancelled: true as soon as
\* transitionTo has returned, false after setPosition, cancelTransition,
\* dispose or natural completion.
C27_IsTransitioningExact ==
  isTransitioning_camera <=> (Alive(tweenStatus) # {})

ResizeStep == aspect' # aspect \/ resized' # resized
\* ---- C28: updateAspect changes only the camera's aspect and projection: the
\* active transition, its target and its pending completion promise are as
\* they were, so a resize does not interrupt a transition.
C28_ResizeKeepsTransition ==
  [][ResizeStep =>
       UNCHANGED <<tweenStatus, tweenTarget, activeTween, resolveCount, hookCount>>]_vars

\* a transition was resized while alive and then completed and resolved
C28_Witness ==
  /\ resized # 0
  /\ tweenStatus[resized] = "completed"
  /\ resolveCount[resized] = 1

\* the last historySize elements of a sequence, in order
Latest(s) ==
  IF Len(s) > historySize THEN SubSeq(s, Len(s) - historySize + 1, Len(s)) ELSE s

\* C22: the frame-time history and the FPS history hold at most historySize
\* (120) samples each, and they are the most recent samples in arrival order:
\* once more than 120 updates have happened, exactly the 120 latest.
C22_HistoryHoldsLatest ==
  /\ Len(frameTimeHistory) <= historySize
  /\ frameTimeHistory = Latest(samples)
  /\ fpsHistory = [i \in 1..Len(frameTimeHistory) |-> FpsOf(frameTimeHistory[i])]

\* more than historySize + 1 updates happened, the oldest samples are gone
C22_Witness ==
  /\ Len(samples) >= historySize + 2
  /\ Len(frameTimeHistory) = historySize
  /\ frameTimeHistory[1] # samples[1]
  /\ frameTimeHistory[historySize] # frameTimeHistory[historySize - 1]

\* C23: any two warning bursts are at least warningThrottleTime (5000 ms)
\* apart, whatever budget violations happen in between and whether or not
\* reset() was called in between.
C23_BurstsCooldownApart ==
  \A i, j \in 1..Len(warnings) :
    i < j => warnings[j] - warnings[i] >= warningThrottleTime

\* a burst, then a reset(), then a violation kept silent inside the window,
\* then the next burst
C23_Witness ==
  /\ Len(warnings) >= 2
  /\ \E r \in 1..Len(resets), q \in 1..Len(suppressed) :
       /\ warnings[1] <= resets[r]
       /\ resets[r] <= suppressed[q]
       /\ suppressed[q] < warnings[2]

\* a DOM event is dispatched
DomEvent ==
  \/ \E p \in InsidePoints : Input_pointermove(p)
  \/ \E e \in {"pointerdown", "pointerup", "pointerleave"}, d \in BOOLEAN :
       Input_pointerbutton(e, d)
  \/ \E key \in Keys : Input_keydown(key) \/ Input_keyup(key)
  \/ \E d \in WheelDeltas : Input_wheel(d)
  \/ \E f \in Fingers, p \in ClientPoints : Input_touchstart(f, p) \/ Input_touchmove(f, p)
  \/ \E f \in Fingers : Input_touchend(f)

\* dispose() has been called
Disposed == boundHandlers = {}

\* C24: after dispose() none of the ten listeners is attached to the canvas
\* or to the window any more, the held-key set is empty, and a DOM event
\* changes neither the pointer state nor the keyboard state nor the scroll
\* delta.
C24_DisposeRemovesAll ==
  /\ [](Disposed => (inputListeners = {} /\ keysPressed = {}))
  /\ [][(Disposed /\ DomEvent) =>
          /\ pointer' = pointer
          /\ keysPressed' = keysPressed
          /\ lastKey' = lastKey
          /\ scrollDelta' = scrollDelta]_vars

\* a key was pressed and the pointer was held before dispose(); an event
\* after it found no listener
C24_Witness ==
  /\ Disposed
  /\ ignored
  /\ lastKey = "a"
  /\ pointer.isDown
  /\ touches # <<>>

\* C25: the pointer position is within [-1, 1] on both axes after any
\* pointermove, touchstart or touchmove, also for a position outside the
\* canvas rectangle.
C25_PointerInRange ==
  /\ pointer.x \in -1..1
  /\ pointer.y \in -1..1

\* C26: after resetDeltas() both deltas are 0 and stay 0 until the next
\* pointermove or touchmove; resetDeltas() changes neither the position nor
\* the pressed flag.
C26_DeltasEdgeTriggered ==
  /\ [](deltaOp = "reset" => (pointer.deltaX = 0 /\ pointer.deltaY = 0))
  /\ [][Input_resetDeltas =>
          /\ pointer'.x = pointer.x
          /\ pointer'.y = pointer.y
          /\ pointer'.isDown = pointer.isDown]_vars

\* the pointer was moved to the corner and pressed, the deltas were reset
C26_Witness ==
  /\ deltaOp = "reset"
  /\ pointer.x = -1
  /\ pointer.y = 1
  /\ pointer.isDown
  /\ ~Disposed

\* C30: under touch input the pointer follows the first touch point: after a
\* touchstart or touchmove the position is that of touches[0], and the
\* pressed flag stays true when a later finger is lifted while the first
\* touch point stays down.
C30_TouchFollowsFirstPoint ==
  [][~Disposed =>
       /\ (\E f \in Fingers, p \in ClientPoints :
             Input_touchstart(f, p) \/ Input_touchmove(f, p))
          => (pointer'.x = NdcX(touches'[1].at) /\ pointer'.y = NdcY(touches'[1].at))
       /\ (\E f \in Fingers, p \in ClientPoints : Input_touchstart(f, p))
          => pointer'.isDown
       /\ (\E f \in Fingers :
             Input_touchend(f) /\ pointer.isDown /\ touches[1].id # f)
          => pointer'.isDown]_vars

\* C38: a budget violation seen by update() is silent only when a warning
\* burst was emitted less than warningThrottleTime before it; in particular
\* the first violating update() after construction warns, whatever the clock
\* reads then.
C38_ViolationWarns ==
  \A q \in 1..Len(suppressed) :
    \E i \in 1..Len(warnings) :
      /\ warnings[i] <= suppressed[q]
      /\ suppressed[q] - warnings[i] < warningThrottleTime

\* C37: a load of an uncached url with maxRetries <= 0 makes no fetch attempt
\* and no backoff wait, rejects, calls the error callback exactly once with an
\* error value that is not null, and leaves the cache as it was.
C37_NoAttemptsRejects ==
  /\ [](\A c \in CallIds :
          (calls[c].pc \notin {"none", "resolved"} /\ calls[c].maxRetries <= 0) =>
            /\ calls[c].pc = "rejected"
            /\ fetchCount[c] = 0
            /\ delays[c] = <<>>
            /\ onErrorSet => (Len(errorCalls[c]) = 1 /\ errorCalls[c][1] # "null"))
  /\ [][\A k \in Kinds, u \in Urls, n \in NoRetryChoices :
          (Loader_load(k, u, n) /\ n <= 0) => cache' = cache]_vars

\* a call with a negative limit was rejected and reported to the callback
\* while an asset was cached
C37_Witness ==
  \E c \in CallIds :
    /\ calls[c].maxRetries < 0
    /\ calls[c].pc = "rejected"
    /\ onErrorSet
    /\ errorCalls[c] = <<"exhausted">>
    /\ \E k \in Kinds, u \in Urls : cache[k][u] # 0

\* C36: a load that is in flight when clearCache() runs does not put its
\* result into the cleared cache: whatever the cache holds after a clear was
\* loaded by a call issued after it.
C36_ClearedCacheStaysClear ==
  \A k \in Kinds, u \in Urls :
    cache[k][u] # 0 => \A c \in stale : calls[c].result # cache[k][u]

\* C34: disposeMaterial disposes every texture held in a property of a
\* material before the material itself, for a single material and for each
\* material of an array: in the log, the dispose() of a material comes right
\* after the dispose() calls on its texture properties, in property order,
\* made during the same visit.
C34_TexturesBeforeMaterial ==
  \A j \in 1..Len(dlog) :
    (dlog[j].op = "dispose" /\ dlog[j].id \in Materials) =>
      LET ts == graph.texs[dlog[j].id] IN
      /\ j > Len(ts)
      /\ \A k \in 1..Len(ts) :
           LET e == dlog[j - Len(ts) + k - 1] IN
           e.op = "dispose" /\ e.id = ts[k] /\ e.node = dlog[j].node

\* a node with a material array was disposed of: both materials hold
\* textures, and the first holds two
C34_Witness ==
  \E i, j \in 1..Len(dlog) :
    /\ i < j
    /\ dlog[i].id = "m1" /\ dlog[j].id = "m2"
    /\ dlog[i].node = dlog[j].node
    /\ Len(graph.texs["m1"]) = 2
    /\ graph.texs["m2"] # <<>>

\* C35: disposeAll(r) has the effect of disposeObject3D(r) for every node r
\* whatever its kind: the same dispose() calls and the same detachments.
C35_DisposeAllAsObject3D ==
  [][\A n \in NodeIds :
       Disposer_disposeAll(n) =>
         LET after == disposeObject3D(CallState, n) IN
         /\ dcount' = after.cnt
         /\ parent' = after.par
         /\ dlog' = after.log]_vars

\* C31: the deltas a frame reads are per-frame: deltaX and deltaY are the
\* total change of x and y since the previous resetDeltas() call, whatever
\* pointer and touch events arrived in between.
C31_DeltasPerFrame ==
  /\ pointer.deltaX = pointer.x - atReset.x
  /\ pointer.deltaY = pointer.y - atReset.y

\* C32: the scroll delta is a consumable accumulator: getScrollDelta()
\* returns the sum of the wheel deltas received since the previous read and
\* sets the accumulator to 0, so that the values returned add up to the sum
\* of all wheel deltas received; a read with nothing received since the last
\* one returns 0.
C32_ScrollAccumulator ==
  /\ [](scrollLog.returned + scrollDelta = scrollLog.received)
  /\ [][Input_getScrollDelta =>
          /\ scrollDelta' = 0
          /\ scrollLog'.returned = scrollLog.received
          /\ (scrollLog.returned = scrollLog.received => scrollLog' = scrollLog)]_vars

\* a read returned the first wheel delta and the accumulator holds a later
\* one that cancels it
C32_Witness ==
  /\ scrollLog.returned = 100
  /\ scrollLog.received = 0
  /\ scrollDelta = -100
  /\ ~Disposed

\* C33: getPointerState() and getKeyboardState() return snapshots: a later
\* input event or resetDeltas() does not change what a returned object holds,
\* and a consumer that writes to a returned object or to its key set does not
\* change the handler's own state.
C33_SnapshotsIndependent ==
  /\ [][(DomEvent \/ Input_resetDeltas) =>
          /\ pointerSnap.taken => ViewPointer' = ViewPointer
          /\ keyboardSnap.taken => ViewKeyboard' = ViewKeyboard]_vars
  /\ [][(Consumer_mutatePointer \/ Consumer_mutateKeys) =>
          /\ pointer' = pointer
          /\ keysPressed' = keysPressed
          /\ lastKey' = lastKey]_vars

\* both snapshots were taken; the pointer moved and the keys changed after
\* that, and the consumer wrote to both snapshots
C33_Witness ==
  /\ pointerSnap.taken
  /\ keyboardSnap.taken
  /\ pointerSnap.value.x # pointer.x
  /\ pointerSnap.value.isDown # pointer.isDown
  /\ "z" \in keyboardSnap.value.keysPressed
  /\ "a" \in keysPressed
  /\ "a" \notin keyboardSnap.value.keysPressed

====
